---- MODULE Spec2Model ----
(***************************************************************************)
(* pyvsphere: the cooperative bulk-operation scheduler                     *)
(* VmOperations.run_on_instances (src/pyvsphere/vmops.py), the generator   *)
(* workflows it drives, and Vim.update_many_objects                        *)
(* (src/pyvsphere/vim25.py), which refreshes the yielded handles.          *)
(*                                                                         *)
(* One action models one step of run_on_instances: the prologue, the       *)
(* batched refresh of a tick, one send() to one generator, the sleep that  *)
(* ends a tick, the return.  A send() runs the generator from the yield it *)
(* is suspended at to its next yield, its return or its exception.         *)
(***************************************************************************)
EXTENDS Integers, Sequences, FiniteSets, TLC

(* ---------------------------------------------------------------- bounds *)
\* number of instance ids a batch may hold
NumIds == 2
\* seconds the remote calls of one tick take on top of the sleep
Latency == 28
\* the clock stops the model here
MaxClock == 270
\* seconds the remote calls of one tick take against a slow service
SlowLatency == 298
\* the clock stops the model of a slow service here
MaxSlowClock == 900

(* ----------------------------------------------------- program constants *)
\* time.sleep(2) at the end of a tick
TickSleep == 2
\* 'if time.time() - tool_wait_started > 60.0'
ToolWaitTimeout == 60
\* self.task_timeout = 600, read by Vim.wait_for_task only
task_timeout == 600

Ids == 1..NumIds

Operations ==
  {"clone_vm", "create_snapshot", "revert_to_snapshot", "remove_snapshot",
   "power_on_off_vm", "delete_vm", "update_vm"}

\* what a remote call of a send() can run into
\*   ok        every remote call answers
\*   query     a property query fails (invoke returns None on BadStatusLine,
\*             or raises): the caller raises
\*   lost      the task-returning invoke returns None (BadStatusLine)
\*   raise     the task-returning invoke raises
\*   interrupt KeyboardInterrupt
Faults == {"ok", "query", "lost", "raise", "interrupt"}

(* --------------------------------------------------------------- handles *)
\* A ManagedObject as the scheduler sees it.  mor = "" is a None reference;
\* state = "" is a task without an 'info' attribute; summary says whether the
\* object has a 'summary' attribute, ip and tools are summary.guest.ipAddress
\* and summary.guest.toolsRunningStatus == 'guestToolsRunning'.
None == [type |-> "None", mor |-> "", state |-> "", summary |-> FALSE, ip |-> "", tools |-> FALSE]

ManagedObject(mor) ==
  [type |-> "Task", mor |-> mor, state |-> "", summary |-> FALSE, ip |-> "", tools |-> FALSE]

VirtualMachine(summary, ip, tools) ==
  [type |-> "VirtualMachine", mor |-> "vm", state |-> "", summary |-> summary, ip |-> ip, tools |-> tools]

\* the guest part of a summary as one remote read returns it
GuestStates == [ip : {"", "ip_local"}, tools : BOOLEAN]

done(task) == task.state \in {"success", "error"}

got_ip(task) == task.summary /\ task.ip # ""

guest_tool_running(task) == task.summary /\ task.tools

(* ------------------------------------------------------------------ state *)
VARIABLES
  pc,                 \* where run_on_instances is
  operation,          \* the generator function of the batch
  args,               \* its keyword arguments
  environ,            \* os.environ.get("CLONE_WITHOUT_SNAPSHOT")
  instances,          \* the caller's mapping id -> instance dict
  server,             \* the remote inventory: per id the VM named vm_name
  inventory,          \* the remote inventory: datastores, resource pools
  datastores,         \* Datastore objects held by the caches: cached freeSpace
  base_vm_cache,      \* self._base_vm_cache
  cluster_datastore_cache, \* self._cluster_datastore_cache
  ops,                \* ids whose generator is active
  tasks,              \* id -> the handle last yielded
  updated_instances,  \* id -> the copy of the instance dict
  todo,               \* list(ops) still to be resumed in this tick
  gen,                \* id -> the generator's frame
  calls,              \* id -> the remote mutations issued, with the state consumed
  now,                \* time.time()
  last                \* the last send(): id and how it ended

vars == <<pc, operation, args, environ, instances, server, inventory, datastores,
          base_vm_cache, cluster_datastore_cache, ops, tasks, updated_instances, todo, gen, calls, now, last>>

\* a generator frame: the yield it is suspended at and its locals
\* datastore is the local of that name of clone_vm: "" until line 136 binds it
Frame0 ==
  [at |-> "start", tool_wait_started |-> 0, clone |-> VirtualMachine(FALSE, "", FALSE),
   datastore |-> ""]

NoSend == [id |-> 0, res |-> "", exc |-> ""]

(* ------------------------------------------------- results of one send() *)
\* res: "yield" | "stop" (StopIteration) | "raise" | "interrupt"
Result(g) ==
  [res |-> "stop", gen |-> g, h |-> None, exc |-> "", calls |-> <<>>,
   ipv4 |-> "", base_vm_cache |-> base_vm_cache,
   cluster_datastore_cache |-> cluster_datastore_cache, datastores |-> datastores]

Yield(g, at, h) == [Result([g EXCEPT !.at = at]) EXCEPT !.res = "yield", !.h = h]

Stop(g) == Result([g EXCEPT !.at = "done"])

Raise(g, exc) == [Result([g EXCEPT !.at = "failed"]) EXCEPT !.res = "raise", !.exc = exc]

\* task = vm.<call>_task(): ManagedObject(self.vim.invoke(<call>, ...)), then
\* 'while not done(task): task = (yield task)': a fresh task has no info
Issue(g, at, call, f) ==
  IF f = "raise"
  THEN [Raise(g, "Fault") EXCEPT !.calls = <<call>>]
  ELSE [Yield(g, at, ManagedObject(IF f = "lost" THEN "" ELSE call)) EXCEPT !.calls = <<call>>]

\* Resolve without the second 'if not vm: raise InvalidParameterError': the
\* workflow goes on with whatever the lookup returned
Resolve_unchecked(i, f, subscript) ==
  LET vm == updated_instances[i].vm IN
  IF vm = "nokey" /\ subscript THEN "KeyError"
  ELSE IF vm \notin {"nokey", "empty"} THEN ""
  ELSE IF f = "query" THEN "Fault"
  ELSE ""

\* vm = instance['vm'] (subscript) or instance.get('vm'); if not vm:
\* vm = find_vm_by_name(...); if not vm: raise InvalidParameterError.
\* "" when the VM is resolved, else the exception raised.
\* instance['vm'] is "nokey" (no such key), "empty" (None), or an object:
\* "nosummary", "summary" (a summary without an address), "summary_ip".
Resolve(i, f, subscript) ==
  LET vm == updated_instances[i].vm IN
  IF vm = "nokey" /\ subscript THEN "KeyError"
  ELSE IF vm \notin {"nokey", "empty"} THEN ""
  ELSE IF f = "query" THEN "Fault"
  ELSE IF server[i].exists THEN "" ELSE "InvalidParameterError"

\* the object 'vm' is bound to after Resolve: the caller's, or the one
\* find_vm_by_name built with the properties asked for
vm_object(i, with_summary) ==
  LET vm == updated_instances[i].vm IN
  IF vm = "summary_ip" THEN VirtualMachine(TRUE, "ip_cached", TRUE)
  ELSE IF vm = "summary" THEN VirtualMachine(TRUE, "", FALSE)
  ELSE IF vm = "nosummary" THEN VirtualMachine(FALSE, "", FALSE)
  ELSE VirtualMachine(with_summary, "", FALSE)

(* ------------------------------------------------------------- workflows *)
\* Each workflow maps (frame, handle sent in, fault met, what the remote
\* reads of this send() return) to the Result of the send().

\* power_on_off_vm without the test of the current power state
power_on_off_vm_always(i, h, f) ==
  LET g == gen[i] IN
  CASE g.at = "start" ->
         LET e == Resolve(i, f, TRUE) IN
         IF e # "" THEN Raise(g, e)
         ELSE IF ~vm_object(i, TRUE).summary THEN Raise(g, "AttributeError")
         ELSE IF ~args.off THEN Issue(g, "power_on", "PowerOnVM_Task", f)
         ELSE Issue(g, "power_off", "PowerOffVM_Task", f)
    [] g.at = "power_on" ->
         IF ~done(h) THEN Yield(g, "power_on", h)
         ELSE IF f = "query" THEN Raise(g, "Fault")
         ELSE IF server[i].power # "poweredOn" THEN Raise(g, "TaskFailedError")
         ELSE Stop(g)
    [] g.at = "power_off" ->
         IF ~done(h) THEN Yield(g, "power_off", h)
         ELSE IF f = "query" THEN Raise(g, "Fault")
         ELSE IF server[i].power # "poweredOff" THEN Raise(g, "TaskFailedError")
         ELSE Stop(g)

power_on_off_vm(i, h, f) ==
  LET g == gen[i] IN
  CASE g.at = "start" ->
         LET e == Resolve(i, f, TRUE) IN
         IF e # "" THEN Raise(g, e)
         ELSE IF ~vm_object(i, TRUE).summary THEN Raise(g, "AttributeError")
         ELSE IF server[i].power = "poweredOff" /\ ~args.off
           THEN Issue(g, "power_on", "PowerOnVM_Task", f)
         ELSE IF server[i].power = "poweredOn" /\ args.off
           THEN Issue(g, "power_off", "PowerOffVM_Task", f)
         ELSE Stop(g)
    [] g.at = "power_on" ->
         IF ~done(h) THEN Yield(g, "power_on", h)
         ELSE IF f = "query" THEN Raise(g, "Fault")
         ELSE IF server[i].power # "poweredOn" THEN Raise(g, "TaskFailedError")
         ELSE Stop(g)
    [] g.at = "power_off" ->
         IF ~done(h) THEN Yield(g, "power_off", h)
         ELSE IF f = "query" THEN Raise(g, "Fault")
         ELSE IF server[i].power # "poweredOff" THEN Raise(g, "TaskFailedError")
         ELSE Stop(g)

\* delete_vm that does not wait for its power-off task
delete_vm_nowait(i, h, f) ==
  LET g == gen[i] IN
  CASE g.at = "start" ->
         LET e == Resolve(i, f, TRUE) IN
         IF e # "" THEN Raise(g, e)
         ELSE IF ~vm_object(i, TRUE).summary THEN Raise(g, "AttributeError")
         ELSE IF server[i].power = "poweredOn"
           THEN Issue(g, "power_off", "PowerOffVM_Task", f)
         ELSE Issue(g, "delete", "Destroy_Task", f)
    [] g.at = "power_off" ->
         Issue(g, "delete", "Destroy_Task", f)
    [] g.at = "delete" ->
         IF ~done(h) THEN Yield(g, "delete", h) ELSE Stop(g)

\* delete_vm that does not check the power state after the power-off task
delete_vm_unverified(i, h, f) ==
  LET g == gen[i] IN
  CASE g.at = "start" ->
         LET e == Resolve(i, f, TRUE) IN
         IF e # "" THEN Raise(g, e)
         ELSE IF ~vm_object(i, TRUE).summary THEN Raise(g, "AttributeError")
         ELSE IF server[i].power = "poweredOn"
           THEN Issue(g, "power_off", "PowerOffVM_Task", f)
         ELSE Issue(g, "delete", "Destroy_Task", f)
    [] g.at = "power_off" ->
         IF ~done(h) THEN Yield(g, "power_off", h)
         ELSE IF f = "query" THEN Raise(g, "Fault")
         ELSE Issue(g, "delete", "Destroy_Task", f)
    [] g.at = "delete" ->
         IF ~done(h) THEN Yield(g, "delete", h) ELSE Stop(g)

delete_vm(i, h, f) ==
  LET g == gen[i] IN
  CASE g.at = "start" ->
         LET e == Resolve(i, f, TRUE) IN
         IF e # "" THEN Raise(g, e)
         ELSE IF ~vm_object(i, TRUE).summary THEN Raise(g, "AttributeError")
         ELSE IF server[i].power = "poweredOn"
           THEN Issue(g, "power_off", "PowerOffVM_Task", f)
         ELSE Issue(g, "delete", "Destroy_Task", f)
    [] g.at = "power_off" ->
         IF ~done(h) THEN Yield(g, "power_off", h)
         ELSE IF f = "query" THEN Raise(g, "Fault")
         ELSE IF server[i].power # "poweredOff" THEN Raise(g, "TaskFailedError")
         ELSE Issue(g, "delete", "Destroy_Task", f)
    [] g.at = "delete" ->
         IF ~done(h) THEN Yield(g, "delete", h) ELSE Stop(g)

\* update_vm that takes whatever the first refresh delivers
update_vm_once(i, h, f) ==
  LET g == gen[i] IN
  CASE g.at = "start" ->
         LET e == Resolve(i, f, FALSE)
             vm == vm_object(i, FALSE) IN
         IF e # "" THEN Raise(g, e)
         ELSE IF got_ip(vm) THEN [Stop(g) EXCEPT !.ipv4 = vm.ip]
         ELSE Yield(g, "ip", vm)
    [] g.at = "ip" ->
         [Stop(g) EXCEPT !.ipv4 = h.ip]

update_vm(i, h, f) ==
  LET g == gen[i] IN
  CASE g.at = "start" ->
         LET e == Resolve(i, f, FALSE)
             vm == vm_object(i, FALSE) IN
         IF e # "" THEN Raise(g, e)
         ELSE IF got_ip(vm) THEN [Stop(g) EXCEPT !.ipv4 = vm.ip]
         ELSE Yield(g, "ip", vm)
    [] g.at = "ip" ->
         IF got_ip(h) THEN [Stop(g) EXCEPT !.ipv4 = h.ip] ELSE Yield(g, "ip", h)

\* create_snapshot that does not read CLONE_WITHOUT_SNAPSHOT
create_snapshot_always(i, h, f) ==
  LET g == gen[i] IN
  CASE g.at = "start" ->
         LET e == Resolve(i, f, TRUE) IN
         IF e # "" THEN Raise(g, e)
         ELSE Issue(g, "snapshot", "CreateSnapshot_Task", f)
    [] g.at = "snapshot" ->
         IF ~done(h) THEN Yield(g, "snapshot", h) ELSE Stop(g)

create_snapshot(i, h, f) ==
  LET g == gen[i] IN
  CASE g.at = "start" ->
         LET e == Resolve(i, f, TRUE) IN
         IF e # "" THEN Raise(g, e)
         ELSE IF environ THEN Stop(g)
         ELSE Issue(g, "snapshot", "CreateSnapshot_Task", f)
    [] g.at = "snapshot" ->
         IF ~done(h) THEN Yield(g, "snapshot", h) ELSE Stop(g)

\* len(vm.find_snapshots_by_name(name)): no snapshot is named None
snapshots_by_name(i) == IF args.name = "" THEN 0 ELSE server[i].snapshots

\* revert_to_snapshot that takes the first snapshot of that name when there
\* are several
revert_to_snapshot_first(i, h, f) ==
  LET g == gen[i] IN
  CASE g.at = "start" ->
         LET e == Resolve(i, f, TRUE) IN
         IF e # "" THEN Raise(g, e)
         ELSE IF args.name # ""
           THEN IF f = "query" THEN Raise(g, "Fault")
                ELSE IF snapshots_by_name(i) = 0 THEN Raise(g, "InvalidParameterError")
                ELSE Issue(g, "revert", "RevertToSnapshot_Task", f)
         ELSE Issue(g, "revert", "RevertToCurrentSnapshot_Task", f)
    [] g.at = "revert" ->
         LET vm == vm_object(i, FALSE) IN
         IF ~done(h) THEN Yield(g, "revert", h)
         ELSE IF ~args.wait_for_ip THEN Stop(g)
         ELSE IF got_ip(vm) THEN [Stop(g) EXCEPT !.ipv4 = vm.ip]
         ELSE Yield(g, "ip", vm)
    [] g.at = "ip" ->
         IF got_ip(h) THEN [Stop(g) EXCEPT !.ipv4 = h.ip] ELSE Yield(g, "ip", h)

revert_to_snapshot(i, h, f) ==
  LET g == gen[i] IN
  CASE g.at = "start" ->
         LET e == Resolve(i, f, TRUE) IN
         IF e # "" THEN Raise(g, e)
         ELSE IF args.name # ""
           THEN IF f = "query" THEN Raise(g, "Fault")
                ELSE IF snapshots_by_name(i) # 1 THEN Raise(g, "InvalidParameterError")
                ELSE Issue(g, "revert", "RevertToSnapshot_Task", f)
         ELSE Issue(g, "revert", "RevertToCurrentSnapshot_Task", f)
    [] g.at = "revert" ->
         LET vm == vm_object(i, FALSE) IN
         IF ~done(h) THEN Yield(g, "revert", h)
         ELSE IF ~args.wait_for_ip THEN Stop(g)
         ELSE IF got_ip(vm) THEN [Stop(g) EXCEPT !.ipv4 = vm.ip]
         ELSE Yield(g, "ip", vm)
    [] g.at = "ip" ->
         IF got_ip(h) THEN [Stop(g) EXCEPT !.ipv4 = h.ip] ELSE Yield(g, "ip", h)

remove_snapshot(i, h, f) ==
  LET g == gen[i] IN
  CASE g.at = "start" ->
         LET e == Resolve(i, f, TRUE) IN
         IF e # "" THEN Raise(g, e)
         ELSE IF f = "query" THEN Raise(g, "Fault")
         ELSE IF snapshots_by_name(i) # 1 THEN Raise(g, "InvalidParameterError")
         ELSE Issue(g, "remove", "RemoveSnapshot_Task", f)
    [] g.at = "remove" ->
         IF ~done(h) THEN Yield(g, "remove", h) ELSE Stop(g)

(* ------------------------------------------------ caches and placement *)
\* the order in which the inventory lists the datastores
DatastoreNames == <<"ds_a", "ds_b", "ds_c">>

\* datastore_filter in x.name
Contains(name, datastore_filter) ==
  \/ datastore_filter = ""
  \/ datastore_filter = "a" /\ name = "ds_a"
  \/ datastore_filter = "b" /\ name = "ds_b"

RECURSIVE Sum(_)
Sum(seq) == IF seq = <<>> THEN 0 ELSE Head(seq) + Sum(Tail(seq))

RECURSIVE Filter(_, _)
Filter(seq, keep) ==
  IF seq = <<>> THEN <<>>
  ELSE (IF Head(seq) \in keep THEN <<Head(seq)>> ELSE <<>>) \o Filter(Tail(seq), keep)

\* insert x into a sequence sorted by decreasing key, after the elements of
\* equal key: sorted(..., reverse=True) keeps the order of equal elements
RECURSIVE Insert(_, _, _)
Insert(x, seq, key) ==
  IF seq = <<>> THEN <<x>>
  ELSE IF key[Head(seq)] >= key[x] THEN <<Head(seq)>> \o Insert(x, Tail(seq), key)
  ELSE <<x>> \o seq

RECURSIVE SortedReverse(_, _)
SortedReverse(seq, key) ==
  IF seq = <<>> THEN <<>>
  ELSE LET n == Len(seq) IN Insert(seq[n], SortedReverse(SubSeq(seq, 1, n - 1), key), key)

Range(seq) == {seq[k] : k \in DOMAIN seq}

\* 'if clustername not in self._cluster_datastore_cache: ...': the Datastore
\* objects of a cluster are fetched once and shared by every base VM
datastores_in_cluster(clustername, c) ==
  IF clustername \in c.cluster_datastore_cache THEN [c EXCEPT !.err = ""]
  ELSE IF clustername \notin DOMAIN inventory.clusters
    THEN [c EXCEPT !.err = "InvalidParameterError"]
  ELSE [c EXCEPT !.err = "",
                 !.cluster_datastore_cache = @ \cup {clustername},
                 !.datastores = (clustername :> inventory.freeSpace) @@ @]

\* _get_base_vm that looks the base VM and its datastores up on every call
get_base_vm_refetch(instance, c) ==
  LET base_vm_name == instance.base_vm_name
      cluster == instance.cluster
      size == Sum(inventory.committed)
      d == IF cluster # "" THEN datastores_in_cluster(cluster, c)
           ELSE [c EXCEPT !.err = "",
                          !.datastores = (base_vm_name :> inventory.freeSpace) @@ @]
      list == IF cluster # "" THEN cluster ELSE base_vm_name
      from == IF cluster # "" /\ d.err = "" THEN inventory.clusters[cluster]
              ELSE Range(DatastoreNames)
      available_datastores ==
        Filter(DatastoreNames,
               {x \in from : Contains(x, instance.datastore_filter)})
  IN
  IF base_vm_name \notin inventory.templates THEN [c EXCEPT !.err = "", !.found = FALSE]
  ELSE IF size <= 0 THEN [c EXCEPT !.err = "AssertionError"]
  ELSE IF d.err # "" THEN d
  ELSE [d EXCEPT !.found = TRUE,
                 !.base_vm_cache =
                    (base_vm_name :> [size |-> size, list |-> list,
                                      available_datastores |-> available_datastores]) @@ @]

\* self._get_base_vm(instance): err # "" when it raises, found says whether
\* a base VM is returned, and the caches are as it leaves them
get_base_vm(instance, c) ==
  LET base_vm_name == instance.base_vm_name
      cluster == instance.cluster
      size == Sum(inventory.committed)
      d == IF cluster # "" THEN datastores_in_cluster(cluster, c)
           ELSE [c EXCEPT !.err = "",
                          !.datastores = (base_vm_name :> inventory.freeSpace) @@ @]
      list == IF cluster # "" THEN cluster ELSE base_vm_name
      from == IF cluster # "" /\ d.err = "" THEN inventory.clusters[cluster]
              ELSE Range(DatastoreNames)
      available_datastores ==
        Filter(DatastoreNames,
               {x \in from : Contains(x, instance.datastore_filter)})
  IN
  IF base_vm_name \in DOMAIN c.base_vm_cache THEN [c EXCEPT !.err = "", !.found = TRUE]
  ELSE IF base_vm_name \notin inventory.templates THEN [c EXCEPT !.err = "", !.found = FALSE]
  ELSE IF size <= 0 THEN [c EXCEPT !.err = "AssertionError"]
  ELSE IF d.err # "" THEN d
  ELSE [d EXCEPT !.found = TRUE,
                 !.base_vm_cache =
                    (base_vm_name :> [size |-> size, list |-> list,
                                      available_datastores |-> available_datastores]) @@ @]

\* the caches as a send() finds them
Caches ==
  [err |-> "", found |-> FALSE, target |-> "", base_vm_cache |-> base_vm_cache,
   cluster_datastore_cache |-> cluster_datastore_cache, datastores |-> datastores]

\* possible_targets that also takes a datastore with just the size free
possible_targets_ge(base_vm, c) ==
  LET freeSpace == c.datastores[base_vm.list]
      enough == {x \in Range(base_vm.available_datastores) : freeSpace[x] >= base_vm.size}
  IN SortedReverse(Filter(base_vm.available_datastores, enough), freeSpace)

\* possible_targets of place_vm
possible_targets(base_vm, c) ==
  LET freeSpace == c.datastores[base_vm.list]
      enough == {x \in Range(base_vm.available_datastores) : freeSpace[x] > base_vm.size}
  IN SortedReverse(Filter(base_vm.available_datastores, enough), freeSpace)

\* place_vm whose most-space takes the other end of the sorted list
place_vm_last(base_vm, placement_strategy, choice, c) ==
  LET freeSpace == c.datastores[base_vm.list]
      enough == {x \in Range(base_vm.available_datastores) : freeSpace[x] > base_vm.size}
      targets == SortedReverse(Filter(base_vm.available_datastores, enough), freeSpace)
      target == IF placement_strategy = "random"
                THEN targets[(choice % Len(targets)) + 1] ELSE targets[Len(targets)]
  IN
  IF placement_strategy \notin {"random", "most-space"} THEN [c EXCEPT !.err = "AssertionError"]
  ELSE IF Len(targets) = 0 THEN [c EXCEPT !.err = "InvalidParameterError"]
  ELSE [c EXCEPT !.err = "", !.target = target,
                 !.datastores[base_vm.list][target] = @ - base_vm.size]

\* place_vm without 'target.summary.freeSpace -= base_vm.size'
place_vm_no_reserve(base_vm, placement_strategy, choice, c) ==
  LET freeSpace == c.datastores[base_vm.list]
      enough == {x \in Range(base_vm.available_datastores) : freeSpace[x] > base_vm.size}
      targets == SortedReverse(Filter(base_vm.available_datastores, enough), freeSpace)
      target == IF placement_strategy = "random"
                THEN targets[(choice % Len(targets)) + 1] ELSE targets[1]
  IN
  IF placement_strategy \notin {"random", "most-space"} THEN [c EXCEPT !.err = "AssertionError"]
  ELSE IF Len(targets) = 0 THEN [c EXCEPT !.err = "InvalidParameterError"]
  ELSE [c EXCEPT !.err = "", !.target = target]

\* place_vm(base_vm, placement_strategy); choice is the number random.choice
\* draws to index possible_targets
place_vm(base_vm, placement_strategy, choice, c) ==
  LET targets == possible_targets(base_vm, c)
      target == IF placement_strategy = "random"
                THEN targets[(choice % Len(targets)) + 1] ELSE targets[1]
  IN
  IF placement_strategy \notin {"random", "most-space"} THEN [c EXCEPT !.err = "AssertionError"]
  ELSE IF Len(targets) = 0 THEN [c EXCEPT !.err = "InvalidParameterError"]
  ELSE [c EXCEPT !.err = "", !.target = target,
                 !.datastores[base_vm.list][target] = @ - base_vm.size]

(* ------------------------------------------------------------ clone_vm *)
\* a Result that carries the caches c
WithCaches(r, c) ==
  [r EXCEPT !.base_vm_cache = c.base_vm_cache,
            !.cluster_datastore_cache = c.cluster_datastore_cache,
            !.datastores = c.datastores]

\* VirtualMachine.clone_vm_task up to and including the CloneVM_Task invoke
clone_vm_task(g, instance, f) ==
  IF f = "query" THEN Raise(g, "Fault")
  ELSE IF instance.datastore # "" /\ instance.datastore \notin Range(DatastoreNames)
    THEN Raise(g, "AssertionError")
  ELSE IF instance.resource_pool # "" /\ instance.resource_pool \notin inventory.resource_pools
    THEN Raise(g, "AssertionError")
  ELSE IF instance.resource_pool = "" /\ instance.cluster # ""
          /\ instance.cluster \notin DOMAIN inventory.clusters
    THEN Raise(g, "NameError")
  ELSE IF instance.resource_pool = "" /\ instance.cluster = "" /\ inventory.root_pools # 1
    THEN Raise(g, "NameError")
  ELSE IF instance.folder # "" /\ instance.folder \notin inventory.folders
    THEN Raise(g, "NameError")
  ELSE Issue(g, "clone", "CloneVM_Task", f)

\* place_and_clone that gives the reservation back when the clone call fails
place_and_clone_release(g, instance, f, choice, c) ==
  LET base_vm == c.base_vm_cache[instance.base_vm_name]
      p == IF instance.datastore # "" THEN [c EXCEPT !.target = instance.datastore]
           ELSE place_vm(base_vm, instance.placement, choice, c)
      r == clone_vm_task([g EXCEPT !.datastore = p.target], instance, f)
  IN IF p.err # "" THEN WithCaches(Raise(g, p.err), c)
     ELSE IF r.res = "raise" THEN WithCaches(r, c)
     ELSE WithCaches(r, p)

\* lines 135-146: pick the datastore, start the clone
place_and_clone(g, instance, f, choice, c) ==
  LET base_vm == c.base_vm_cache[instance.base_vm_name]
      p == IF instance.datastore # "" THEN [c EXCEPT !.target = instance.datastore]
           ELSE place_vm(base_vm, instance.placement, choice, c)
  IN IF p.err # "" THEN WithCaches(Raise(g, p.err), c)
     ELSE WithCaches(clone_vm_task([g EXCEPT !.datastore = p.target], instance, f), p)

\* wait_for_ip that takes the snapshot without waiting for an address
wait_for_ip_skip(g, task, f, sofar) ==
  LET r == Issue(g, "snapshot", "CreateSnapshot_Task", f)
  IN [r EXCEPT !.calls = sofar \o @, !.ipv4 = task.ip]

\* wait_for_ip that gives up once the run has lasted longer than task_timeout
wait_for_ip_timeout(g, task, f, sofar) ==
  IF ~got_ip(task)
  THEN IF now > task_timeout THEN [Raise(g, "TimeoutError") EXCEPT !.calls = sofar]
       ELSE [Yield(g, "ip", task) EXCEPT !.calls = sofar]
  ELSE LET r == Issue(g, "snapshot", "CreateSnapshot_Task", f)
       IN [r EXCEPT !.calls = sofar \o @, !.ipv4 = task.ip]

\* lines 229-240: wait for an address on 'task', then snapshot; sofar holds the
\* calls the send() has issued so far
wait_for_ip(g, task, f, sofar) ==
  IF ~got_ip(task) THEN [Yield(g, "ip", task) EXCEPT !.calls = sofar]
  ELSE LET r == Issue(g, "snapshot", "CreateSnapshot_Task", f)
       IN [r EXCEPT !.calls = sofar \o @, !.ipv4 = task.ip]

\* lines 226-227, then the wait for an address on the local 'clone'
run_script_then_wait(g, f) ==
  IF f = "query" THEN Raise(g, "Fault")
  ELSE IF f \in {"lost", "raise"}
    THEN [Raise(g, "Fault") EXCEPT !.calls = <<"StartProgramInGuest">>]
  ELSE wait_for_ip(g, g.clone, f, <<"StartProgramInGuest">>)

clone_vm(i, h, f, guest, choice) ==
  LET g == gen[i]
      instance == updated_instances[i]
  IN
  CASE g.at = "start" ->
         LET b == get_base_vm(instance, Caches) IN
         IF f = "query" /\ (instance.base_vm_name \notin DOMAIN base_vm_cache \/ args.nuke_old)
           THEN Raise(g, "Fault")
         ELSE IF b.err # "" THEN WithCaches(Raise(g, b.err), b)
         ELSE IF ~b.found THEN Raise(g, "InvalidParameterError")
         ELSE IF args.nuke_old /\ server[i].exists
           THEN IF server[i].power = "poweredOn"
                THEN WithCaches(Issue(g, "nuke_power_off", "PowerOffVM_Task", f), b)
                ELSE WithCaches(Issue(g, "nuke_delete", "Destroy_Task", f), b)
         ELSE place_and_clone(g, instance, f, choice, b)
    [] g.at = "nuke_power_off" ->
         IF ~done(h) THEN Yield(g, "nuke_power_off", h)
         ELSE Issue(g, "nuke_delete", "Destroy_Task", f)
    [] g.at = "nuke_delete" ->
         IF ~done(h) THEN Yield(g, "nuke_delete", h)
         ELSE place_and_clone(g, instance, f, choice, Caches)
    [] g.at = "clone" ->
         IF ~done(h) THEN Yield(g, "clone", h)
         ELSE IF h.state # "success" THEN Raise(g, "TaskFailedError")
         ELSE IF f = "query" THEN Raise(g, "Fault")
         ELSE IF ~server[i].exists THEN Raise(g, "AssertionError")
         ELSE IF instance.hardware THEN Issue(g, "reconfig", "ReconfigVM_Task", f)
         ELSE Issue(g, "power_on", "PowerOnVM_Task", f)
    [] g.at = "reconfig" ->
         IF ~done(h) THEN Yield(g, "reconfig", h)
         ELSE Issue(g, "power_on", "PowerOnVM_Task", f)
    [] g.at = "power_on" ->
         LET clone == VirtualMachine(TRUE, guest.ip, guest.tools)
             g1 == [g EXCEPT !.clone = clone, !.tool_wait_started = now]
         IN
         IF ~done(h) THEN Yield(g, "power_on", h)
         ELSE IF f = "query" THEN Raise(g, "Fault")
         ELSE IF server[i].power # "poweredOn" THEN Raise(g, "TaskFailedError")
         ELSE IF instance.network = "" THEN wait_for_ip([g EXCEPT !.clone = clone], clone, f, <<>>)
         ELSE IF instance.network # "ok" THEN Raise(g, "InvalidParameterError")
         ELSE IF guest_tool_running(clone) THEN run_script_then_wait(g1, f)
         ELSE Yield(g1, "tools", clone)
    [] g.at = "tools" ->
         IF now - g.tool_wait_started > ToolWaitTimeout THEN Raise(g, "TimeoutError")
         ELSE IF guest_tool_running(h) THEN run_script_then_wait(g, f)
         ELSE Yield(g, "tools", h)
    [] g.at = "ip" ->
         wait_for_ip(g, h, f, <<>>)
    [] g.at = "snapshot" ->
         IF ~done(h) THEN Yield(g, "snapshot", h) ELSE Stop(g)

\* ops[instance_id].send(tasks[instance_id])
send(i, h, f, guest, choice) ==
  IF f = "interrupt" THEN [Result(gen[i]) EXCEPT !.res = "interrupt"]
  ELSE CASE operation = "clone_vm" -> clone_vm(i, h, f, guest, choice)
         [] operation = "create_snapshot" -> create_snapshot(i, h, f)
         [] operation = "revert_to_snapshot" -> revert_to_snapshot(i, h, f)
         [] operation = "remove_snapshot" -> remove_snapshot(i, h, f)
         [] operation = "power_on_off_vm" -> power_on_off_vm(i, h, f)
         [] operation = "delete_vm" -> delete_vm(i, h, f)
         [] operation = "update_vm" -> update_vm(i, h, f)

(* ------------------------------------------------- update_many_objects *)
\* what one RetrieveProperties can return for an object
Refreshed(obj) ==
  IF obj.type = "Task"
  THEN {[obj EXCEPT !.state = st] : st \in {"running", "success", "error"}}
  ELSE {VirtualMachine(TRUE, ip, tools) : ip \in {"", "ip_fresh"}, tools \in BOOLEAN}

\* the answers of the RetrieveProperties invoke of update_many_objects:
\* fault "lost" is None (BadStatusLine); otherwise object_contents holds one
\* refreshed object for each object the service answers for
RetrieveProperties(objects) ==
  LET asked == {k \in DOMAIN objects : objects[k] # None}
      answers == UNION {[S -> UNION {Refreshed(objects[k]) : k \in S}] : S \in SUBSET asked}
  IN {[fault |-> f, object_contents |-> << >>] : f \in {"lost", "raise", "interrupt"}}
     \cup {[fault |-> "ok", object_contents |-> c] :
             c \in {a \in answers : \A k \in DOMAIN a : a[k] \in Refreshed(objects[k])}}

\* update_many_objects that on a short answer hands back every object it
\* asked for as a task that ended in error
update_many_objects_fail(objects, answer) ==
  LET asked == {k \in DOMAIN objects : objects[k] # None}
      object_contents == answer.object_contents
      empty == DOMAIN objects \ asked
  IN
  IF \E k \in asked : objects[k].mor = ""
    THEN [exc |-> "AttributeError", ok |-> FALSE, objects |-> objects]
  ELSE IF answer.fault = "raise" THEN [exc |-> "Fault", ok |-> FALSE, objects |-> objects]
  ELSE IF answer.fault = "interrupt"
    THEN [exc |-> "KeyboardInterrupt", ok |-> FALSE, objects |-> objects]
  ELSE IF answer.fault = "lost" \/ Cardinality(DOMAIN object_contents) = 0
          \/ Cardinality(DOMAIN object_contents) # Cardinality(DOMAIN objects)
    THEN [exc |-> "", ok |-> FALSE,
          objects |-> [k \in DOMAIN objects |->
                         IF k \in asked THEN [objects[k] EXCEPT !.state = "error"]
                         ELSE objects[k]]]
  ELSE [exc |-> "", ok |-> TRUE,
        objects |-> [k \in empty \cup DOMAIN object_contents |->
                       IF k \in empty THEN objects[k] ELSE object_contents[k]]]

\* update_many_objects that on a short answer hands back the objects it got
\* an answer for refreshed and the other ones as they were
update_many_objects_partial(objects, answer) ==
  LET asked == {k \in DOMAIN objects : objects[k] # None}
      object_contents == answer.object_contents
      empty == DOMAIN objects \ asked
  IN
  IF \E k \in asked : objects[k].mor = ""
    THEN [exc |-> "AttributeError", ok |-> FALSE, objects |-> objects]
  ELSE IF answer.fault = "raise" THEN [exc |-> "Fault", ok |-> FALSE, objects |-> objects]
  ELSE IF answer.fault = "interrupt"
    THEN [exc |-> "KeyboardInterrupt", ok |-> FALSE, objects |-> objects]
  ELSE IF answer.fault = "lost" \/ Cardinality(DOMAIN object_contents) = 0
    THEN [exc |-> "", ok |-> FALSE, objects |-> objects]
  ELSE [exc |-> "",
        ok |-> Cardinality(DOMAIN object_contents) = Cardinality(DOMAIN objects),
        objects |-> [k \in DOMAIN objects |->
                       IF k \in DOMAIN object_contents THEN object_contents[k]
                       ELSE objects[k]]]

\* update_many_objects whose object_map hands a result to the wrong key
update_many_objects_swapped(objects, answer) ==
  LET asked == {k \in DOMAIN objects : objects[k] # None}
      object_contents == answer.object_contents
      empty == DOMAIN objects \ asked
  IN
  IF \E k \in asked : objects[k].mor = ""
    THEN [exc |-> "AttributeError", ok |-> FALSE, objects |-> objects]
  ELSE IF answer.fault = "raise" THEN [exc |-> "Fault", ok |-> FALSE, objects |-> objects]
  ELSE IF answer.fault = "interrupt"
    THEN [exc |-> "KeyboardInterrupt", ok |-> FALSE, objects |-> objects]
  ELSE IF answer.fault = "lost" \/ Cardinality(DOMAIN object_contents) = 0
          \/ Cardinality(DOMAIN object_contents) # Cardinality(DOMAIN objects)
    THEN [exc |-> "", ok |-> FALSE, objects |-> objects]
  ELSE [exc |-> "", ok |-> TRUE,
        objects |-> [k \in empty \cup DOMAIN object_contents |->
                       IF k \in empty THEN objects[k]
                       ELSE IF NumIds + 1 - k \in DOMAIN object_contents
                         THEN object_contents[NumIds + 1 - k]
                       ELSE object_contents[k]]]

\* Vim.update_many_objects(objects) given the answer of its invoke:
\* exc # "" when it raises, else (ok, objects) is what it returns
update_many_objects(objects, answer) ==
  LET asked == {k \in DOMAIN objects : objects[k] # None}
      object_contents == answer.object_contents
      empty == DOMAIN objects \ asked
  IN
  IF \E k \in asked : objects[k].mor = ""
    THEN [exc |-> "AttributeError", ok |-> FALSE, objects |-> objects]
  ELSE IF answer.fault = "raise" THEN [exc |-> "Fault", ok |-> FALSE, objects |-> objects]
  ELSE IF answer.fault = "interrupt"
    THEN [exc |-> "KeyboardInterrupt", ok |-> FALSE, objects |-> objects]
  ELSE IF answer.fault = "lost" \/ Cardinality(DOMAIN object_contents) = 0
          \/ Cardinality(DOMAIN object_contents) # Cardinality(DOMAIN objects)
    THEN [exc |-> "", ok |-> FALSE, objects |-> objects]
  ELSE [exc |-> "", ok |-> TRUE,
        objects |-> [k \in empty \cup DOMAIN object_contents |->
                       IF k \in empty THEN objects[k] ELSE object_contents[k]]]

\* what the remote service has done once a task is seen in state success
Completed(vm, before, after) ==
  IF ~(after.type = "Task" /\ after.state = "success" /\ before.state # "success") THEN vm
  ELSE CASE after.mor = "PowerOnVM_Task" -> [vm EXCEPT !.power = "poweredOn"]
         [] after.mor = "PowerOffVM_Task" -> [vm EXCEPT !.power = "poweredOff"]
         [] after.mor = "Destroy_Task" -> [vm EXCEPT !.exists = FALSE]
         [] after.mor = "CloneVM_Task" -> [vm EXCEPT !.exists = TRUE, !.power = "poweredOff"]
         [] OTHER -> vm

(* ------------------------------------------------------ run_on_instances *)
\* any(tasks.itervalues())
any(objects) == \E k \in DOMAIN objects : objects[k] # None

\* del d[key]
del(d, key) == [k \in DOMAIN d \ {key} |-> d[k]]

\* the history of remote mutations: the state the generator consumed of its
\* last task, then the calls this send() issued
Consumed(cs, h) ==
  IF cs # << >> /\ h.type = "Task" /\ done(h) /\ cs[Len(cs)].state = ""
  THEN [cs EXCEPT ![Len(cs)].state = h.state] ELSE cs

Issued(names) == [k \in DOMAIN names |-> [call |-> names[k], state |-> ""]]

\* handle without the 'except Exception' clause: the exception of one
\* generator leaves run_on_instances
handle_propagate(i, r, written) ==
  CASE r.res = "yield" ->
         [pc |-> "resume", ops |-> ops, tasks |-> [tasks EXCEPT ![i] = r.h],
          updated_instances |-> written]
    [] r.res = "stop" ->
         [pc |-> "resume", ops |-> ops \ {i}, tasks |-> del(tasks, i),
          updated_instances |-> written]
    [] r.res = "interrupt" ->
         [pc |-> "interrupted", ops |-> ops, tasks |-> tasks, updated_instances |-> written]
    [] r.res = "raise" ->
         [pc |-> "raised", ops |-> ops, tasks |-> tasks, updated_instances |-> written]

\* handle that also deletes the failed instance from updated_instances
handle_drop(i, r, written) ==
  CASE r.res = "yield" ->
         [pc |-> "resume", ops |-> ops, tasks |-> [tasks EXCEPT ![i] = r.h],
          updated_instances |-> written]
    [] r.res = "stop" ->
         [pc |-> "resume", ops |-> ops \ {i}, tasks |-> del(tasks, i),
          updated_instances |-> written]
    [] r.res = "interrupt" ->
         [pc |-> "interrupted", ops |-> ops, tasks |-> tasks, updated_instances |-> written]
    [] r.res = "raise" ->
         [pc |-> "resume", ops |-> ops \ {i}, tasks |-> del(tasks, i),
          updated_instances |-> del(written, i)]

\* handle without the 'except KeyboardInterrupt: raise' clause: the interrupt
\* is caught by 'except Exception' like any failure of the generator
handle_swallow(i, r, written) ==
  CASE r.res = "yield" ->
         [pc |-> "resume", ops |-> ops, tasks |-> [tasks EXCEPT ![i] = r.h],
          updated_instances |-> written]
    [] r.res = "stop" ->
         [pc |-> "resume", ops |-> ops \ {i}, tasks |-> del(tasks, i),
          updated_instances |-> written]
    [] r.res \in {"raise", "interrupt"} ->
         [pc |-> "resume", ops |-> ops \ {i}, tasks |-> del(tasks, i),
          updated_instances |->
            [written EXCEPT ![i].error = IF r.res = "raise" THEN r.exc ELSE "KeyboardInterrupt"]]

\* handle whose 'except Exception' clause does not set 'error'
handle_no_error(i, r, written) ==
  CASE r.res = "yield" ->
         [pc |-> "resume", ops |-> ops, tasks |-> [tasks EXCEPT ![i] = r.h],
          updated_instances |-> written]
    [] r.res = "stop" ->
         [pc |-> "resume", ops |-> ops \ {i}, tasks |-> del(tasks, i),
          updated_instances |-> written]
    [] r.res = "interrupt" ->
         [pc |-> "interrupted", ops |-> ops, tasks |-> tasks, updated_instances |-> written]
    [] r.res = "raise" ->
         [pc |-> "resume", ops |-> ops \ {i}, tasks |-> del(tasks, i),
          updated_instances |-> written]

\* handle without 'del tasks[instance_id]' after StopIteration
handle_keep_task(i, r, written) ==
  CASE r.res = "yield" ->
         [pc |-> "resume", ops |-> ops, tasks |-> [tasks EXCEPT ![i] = r.h],
          updated_instances |-> written]
    [] r.res = "stop" ->
         [pc |-> "resume", ops |-> ops \ {i}, tasks |-> tasks, updated_instances |-> written]
    [] r.res = "interrupt" ->
         [pc |-> "interrupted", ops |-> ops, tasks |-> tasks, updated_instances |-> written]
    [] r.res = "raise" ->
         [pc |-> "resume", ops |-> ops \ {i}, tasks |-> del(tasks, i),
          updated_instances |-> [written EXCEPT ![i].error = r.exc]]

\* handle that sets tasks[instance_id] = None on StopIteration
handle_none(i, r, written) ==
  CASE r.res = "yield" ->
         [pc |-> "resume", ops |-> ops, tasks |-> [tasks EXCEPT ![i] = r.h],
          updated_instances |-> written]
    [] r.res = "stop" ->
         [pc |-> "resume", ops |-> ops \ {i}, tasks |-> [tasks EXCEPT ![i] = None],
          updated_instances |-> written]
    [] r.res = "interrupt" ->
         [pc |-> "interrupted", ops |-> ops, tasks |-> tasks,
          updated_instances |-> written]
    [] r.res = "raise" ->
         [pc |-> "resume", ops |-> ops \ {i}, tasks |-> del(tasks, i),
          updated_instances |-> [written EXCEPT ![i].error = r.exc]]

\* the try/except around send() (lines 469-480): what becomes of the loop, of
\* ops and tasks, and of updated_instances as the generator has written it
handle(i, r, written) ==
  CASE r.res = "yield" ->
         [pc |-> "resume", ops |-> ops, tasks |-> [tasks EXCEPT ![i] = r.h],
          updated_instances |-> written]
    [] r.res = "stop" ->
         [pc |-> "resume", ops |-> ops \ {i}, tasks |-> del(tasks, i),
          updated_instances |-> written]
    [] r.res = "interrupt" ->
         [pc |-> "interrupted", ops |-> ops, tasks |-> tasks,
          updated_instances |-> written]
    [] r.res = "raise" ->
         [pc |-> "resume", ops |-> ops \ {i}, tasks |-> del(tasks, i),
          updated_instances |-> [written EXCEPT ![i].error = r.exc]]

\* were the dict the generator writes to the caller's own
caller_view_shared(instance_dict, instance_copy) == instance_copy

\* 'instance_copy = copy.copy(instance_dict)', line 460: the dict of the caller
\* once instance_copy, a new object, has been written to
caller_view(instance_dict, instance_copy) == instance_dict

\* lines 454-464
Start ==
  /\ pc = "idle"
  /\ pc' = "loop"
  /\ updated_instances' = [i \in DOMAIN instances |-> instances[i]]
  /\ ops' = DOMAIN instances
  /\ tasks' = [i \in DOMAIN instances |-> None]
  /\ gen' = [i \in Ids |-> Frame0]
  /\ todo' = {}
  /\ UNCHANGED <<operation, args, environ, instances, server, inventory, datastores,
                 base_vm_cache, cluster_datastore_cache, calls, now, last>>

\* the refresh of a loop without the 'if any(tasks.itervalues())' of line 466
Refresh_always ==
  /\ pc = "loop" /\ ops # {}
  /\ \E answer \in RetrieveProperties(tasks) :
       LET u == update_many_objects(tasks, answer) IN
         /\ pc' = IF u.exc = "" THEN "resume"
                  ELSE IF u.exc = "KeyboardInterrupt" THEN "interrupted" ELSE "raised"
         /\ tasks' = u.objects
         /\ todo' = IF u.exc = "" THEN ops ELSE todo
         /\ server' = [i \in Ids |->
                         IF u.ok /\ i \in DOMAIN tasks /\ i \in DOMAIN u.objects
                         THEN Completed(server[i], tasks[i], u.objects[i]) ELSE server[i]]
         /\ last' = [id |-> 0, res |-> "refresh", exc |-> u.exc]
  /\ UNCHANGED <<operation, args, environ, instances, inventory, datastores, base_vm_cache,
                 cluster_datastore_cache, ops, updated_instances, gen, calls, now>>

\* lines 466-467, any(...) true: the batched refresh of the tick
Refresh ==
  /\ pc = "loop" /\ ops # {} /\ any(tasks)
  /\ \E answer \in RetrieveProperties(tasks) :
       LET u == update_many_objects(tasks, answer) IN
         /\ pc' = IF u.exc = "" THEN "resume"
                  ELSE IF u.exc = "KeyboardInterrupt" THEN "interrupted" ELSE "raised"
         /\ tasks' = u.objects
         /\ todo' = IF u.exc = "" THEN ops ELSE todo
         /\ server' = [i \in Ids |->
                         IF u.ok /\ i \in DOMAIN tasks /\ i \in DOMAIN u.objects
                         THEN Completed(server[i], tasks[i], u.objects[i]) ELSE server[i]]
         /\ last' = [id |-> 0, res |-> "refresh", exc |-> u.exc]
  /\ UNCHANGED <<operation, args, environ, instances, inventory, datastores, base_vm_cache,
                 cluster_datastore_cache, ops, updated_instances, gen, calls, now>>

\* the tick of a loop that tests 'ops' only after its body
NoRefresh_unguarded ==
  /\ pc = "loop" /\ ~any(tasks)
  /\ pc' = "resume"
  /\ todo' = ops
  /\ UNCHANGED <<operation, args, environ, instances, server, inventory, datastores,
                 base_vm_cache, cluster_datastore_cache, ops, tasks, updated_instances,
                 gen, calls, now, last>>

\* line 466, any(...) false: no handle is outstanding
NoRefresh ==
  /\ pc = "loop" /\ ops # {} /\ ~any(tasks)
  /\ pc' = "resume"
  /\ todo' = ops
  /\ UNCHANGED <<operation, args, environ, instances, server, inventory, datastores,
                 base_vm_cache, cluster_datastore_cache, ops, tasks, updated_instances,
                 gen, calls, now, last>>

\* lines 468-480 for one instance_id of list(ops)
Resume(i, f, guest, choice) ==
  /\ pc = "resume" /\ i \in todo
  /\ LET r == send(i, tasks[i], f, guest, choice)
         written == [updated_instances EXCEPT ![i].ipv4 = IF r.ipv4 # "" THEN r.ipv4 ELSE @]
         e == handle(i, r, written)
     IN
       /\ pc' = e.pc
       /\ ops' = e.ops
       /\ tasks' = e.tasks
       /\ updated_instances' = e.updated_instances
       /\ instances' = [j \in DOMAIN instances |->
                          caller_view(instances[j], e.updated_instances[j])]
       /\ last' = [id |-> i, res |-> r.res, exc |-> r.exc]
       /\ IF r.res = "interrupt"
          THEN UNCHANGED <<todo, gen, calls, base_vm_cache, cluster_datastore_cache, datastores>>
          ELSE /\ todo' = todo \ {i}
               /\ gen' = [gen EXCEPT ![i] = r.gen]
               /\ calls' = [calls EXCEPT ![i] = Consumed(@, tasks[i]) \o Issued(r.calls)]
               /\ base_vm_cache' = r.base_vm_cache
               /\ cluster_datastore_cache' = r.cluster_datastore_cache
               /\ datastores' = r.datastores
  /\ UNCHANGED <<operation, args, environ, server, inventory, now>>

\* time.time() is read at lines 221 and 224 only (and for the progress log):
\* the clock of the model runs while a generator is in the tool wait, which
\* is when a reading of it can tell
Timed == \E i \in ops : gen[i].at = "tools"

\* line 484, and the time the tick took
Sleep ==
  /\ pc = "resume" /\ todo = {}
  /\ now + TickSleep + Latency <= MaxClock
  /\ now' = IF Timed THEN now + TickSleep + Latency ELSE now
  /\ pc' = "loop"
  /\ UNCHANGED <<operation, args, environ, instances, server, inventory, datastores,
                 base_vm_cache, cluster_datastore_cache, ops, tasks, updated_instances,
                 todo, gen, calls, last>>

\* 'while ops' false, line 485
Return ==
  /\ pc = "loop" /\ ops = {}
  /\ pc' = "returned"
  /\ UNCHANGED <<operation, args, environ, instances, server, inventory, datastores,
                 base_vm_cache, cluster_datastore_cache, ops, tasks, updated_instances,
                 todo, gen, calls, now, last>>

\* KeyboardInterrupt outside a send() and outside the refresh: in the sleep
Interrupt ==
  /\ pc = "resume" /\ todo = {}
  /\ pc' = "interrupted"
  /\ last' = [id |-> 0, res |-> "interrupt", exc |-> "KeyboardInterrupt"]
  /\ UNCHANGED <<operation, args, environ, instances, server, inventory, datastores,
                 base_vm_cache, cluster_datastore_cache, ops, tasks, updated_instances,
                 todo, gen, calls, now>>

\* the guest states a send() to i can read, the numbers it can draw: one
\* value where the generator reads or draws nothing
Reads(i) ==
  IF operation = "clone_vm" /\ gen[i].at = "power_on" THEN GuestStates
  ELSE {[ip |-> "", tools |-> FALSE]}

Draws(i) ==
  IF operation = "clone_vm" /\ gen[i].at \in {"start", "nuke_delete"}
  THEN 0..(Len(DatastoreNames) - 1) ELSE {0}

Next ==
  \/ Start
  \/ Refresh
  \/ NoRefresh
  \/ \E i \in Ids, f \in Faults :
       \E guest \in Reads(i), choice \in Draws(i) : Resume(i, f, guest, choice)
  \/ Sleep
  \/ Return
  \/ Interrupt

(* ------------------------------------------------------------- inputs *)
\* an instance dict: the keys the workflows read ("" is an absent key)
Instance ==
  [vm |-> "empty", base_vm_name |-> "base", datastore_filter |-> "", cluster |-> "",
   datastore |-> "", placement |-> "random", resource_pool |-> "", folder |-> "",
   hardware |-> FALSE, network |-> "", ipv4 |-> "", error |-> ""]

\* the VM named vm_name in the remote inventory
Vm(exists, power, snapshots) == [exists |-> exists, power |-> power, snapshots |-> snapshots]

NoVm == Vm(FALSE, "poweredOff", 0)

Args == [nuke_old |-> FALSE, off |-> FALSE, name |-> "", wait_for_ip |-> TRUE]

Inventory ==
  [templates |-> {"base"}, clusters |-> ("c_ok" :> {"ds_b"}),
   freeSpace |-> [d \in Range(DatastoreNames) |->
                   IF d = "ds_a" THEN 2 ELSE IF d = "ds_b" THEN 3 ELSE 0],
   committed |-> <<1, 1>>, root_pools |-> 1, resource_pools |-> {"rp_ok"},
   folders |-> {"f_ok"}]

\* one instance of a batch: its dict and the VM it names
Case(instance, vm) == [instance |-> instance, vm |-> vm]

\* a batch instance per way 'vm' can be resolved
Found(vm) == Case(Instance, vm)

Given(object, vm) == Case([Instance EXCEPT !.vm = object], vm)

PowerCases ==
  <<Found(NoVm), Found(Vm(TRUE, "poweredOn", 1)), Found(Vm(TRUE, "poweredOff", 1)),
    Found(Vm(TRUE, "suspended", 1)), Given("summary", Vm(TRUE, "poweredOn", 1)),
    Given("nosummary", Vm(TRUE, "poweredOn", 1)), Given("nokey", Vm(TRUE, "poweredOn", 1))>>

SnapshotCases ==
  <<Found(NoVm), Found(Vm(TRUE, "poweredOn", 0)), Found(Vm(TRUE, "poweredOn", 1)),
    Found(Vm(TRUE, "poweredOn", 2)), Given("summary_ip", Vm(TRUE, "poweredOn", 1)),
    Given("nosummary", Vm(TRUE, "poweredOn", 1)), Given("nokey", Vm(TRUE, "poweredOn", 1))>>

UpdateCases ==
  <<Found(NoVm), Found(Vm(TRUE, "poweredOn", 1)), Given("summary_ip", Vm(TRUE, "poweredOn", 1)),
    Given("summary", Vm(TRUE, "poweredOn", 1)), Given("nosummary", Vm(TRUE, "poweredOn", 1)),
    Given("nokey", Vm(TRUE, "poweredOn", 1))>>

CloneCases ==
  <<Found(NoVm), Found(Vm(TRUE, "poweredOn", 0)),
    Case([Instance EXCEPT !.base_vm_name = "nobase"], NoVm),
    Case([Instance EXCEPT !.base_vm_name = "nobase"], Vm(TRUE, "poweredOn", 0))>>

Cases(op) ==
  CASE op = "clone_vm" -> CloneCases
    [] op \in {"power_on_off_vm", "delete_vm"} -> PowerCases
    [] op = "update_vm" -> UpdateCases
    [] OTHER -> SnapshotCases

ArgsOf(op) ==
  CASE op = "clone_vm" -> {[Args EXCEPT !.nuke_old = b] : b \in BOOLEAN}
    [] op = "power_on_off_vm" -> {[Args EXCEPT !.off = b] : b \in BOOLEAN}
    [] op = "revert_to_snapshot" ->
         {[Args EXCEPT !.name = n, !.wait_for_ip = b] : n \in {"", "pristine"}, b \in BOOLEAN}
    [] op = "remove_snapshot" -> {[Args EXCEPT !.name = n] : n \in {"", "pristine"}}
    [] OTHER -> {Args}

\* the state after VmOperations.__init__, before run_on_instances is called
\* with a batch of n instances drawn from cases
InitWith(op, a, env, inv, batch) ==
  /\ pc = "idle"
  /\ operation = op
  /\ args = a
  /\ environ = env
  /\ instances = [i \in DOMAIN batch |-> batch[i].instance]
  /\ server = [i \in Ids |-> IF i \in DOMAIN batch THEN batch[i].vm ELSE NoVm]
  /\ inventory = inv
  /\ datastores = << >>
  /\ base_vm_cache = << >>
  /\ cluster_datastore_cache = {}
  /\ ops = {}
  /\ tasks = << >>
  /\ updated_instances = << >>
  /\ todo = {}
  /\ gen = [i \in Ids |-> Frame0]
  /\ calls = [i \in Ids |-> << >>]
  /\ now = 0
  /\ last = NoSend

\* the batches of n instances drawn from cases; the ids of a batch are
\* interchangeable, so each batch is drawn in one order only
Batches(cases, n) ==
  {[i \in 1..n |-> cases[pick[i]]] :
     pick \in {p \in [1..n -> DOMAIN cases] : \A i \in 1..n, j \in 1..n : i <= j => p[i] <= p[j]}}

Init ==
  \E op \in Operations, n \in 0..NumIds :
    \E a \in ArgsOf(op), env \in BOOLEAN, batch \in Batches(Cases(op), n) :
      /\ (env => op = "create_snapshot")
      /\ InitWith(op, a, env, Inventory, batch)

Spec == Init /\ [][Next]_vars

\* clone_vm on one instance, over the keys of the instance dict it reads and
\* over the inventories that decide placement and resource pool resolution
CloneInstances ==
  {Instance}
  \cup {[Instance EXCEPT !.base_vm_name = "nobase"]}
  \cup {[Instance EXCEPT !.network = n] : n \in {"ok", "no_user", "no_netmask"}}
  \cup {[Instance EXCEPT !.hardware = TRUE]}
  \cup {[Instance EXCEPT !.datastore = d] : d \in {"ds_a", "ds_x"}}
  \cup {[Instance EXCEPT !.placement = p] : p \in {"most-space", "bogus"}}
  \cup {[Instance EXCEPT !.datastore_filter = "a"]}
  \cup {[Instance EXCEPT !.resource_pool = r] : r \in {"rp_ok", "rp_x"}}
  \cup {[Instance EXCEPT !.cluster = c] : c \in {"c_ok", "c_x"}}
  \cup {[Instance EXCEPT !.folder = d] : d \in {"f_ok", "f_x"}}

Inventories == {Inventory, [Inventory EXCEPT !.root_pools = 2]}

InitClone ==
  \E nuke_old \in BOOLEAN, instance \in CloneInstances, inv \in Inventories,
     vm \in {NoVm, Vm(TRUE, "poweredOn", 0), Vm(TRUE, "poweredOff", 0)} :
    InitWith("clone_vm", [Args EXCEPT !.nuke_old = nuke_old], FALSE, inv,
             <<Case(instance, vm)>>)

SpecClone == InitClone /\ [][Next]_vars

\* the first tick of clone_vm batches over inventories whose datastores have
\* less, as much and more free space than the base VM takes: the sends in
\* which place_vm runs, one after the other on the shared cached figures
PlaceInventories ==
  {[Inventory EXCEPT !.freeSpace = fs, !.committed = cm] :
     fs \in [Range(DatastoreNames) -> {2, 3, 5}], cm \in {<<1, 1>>, <<2, 1>>}}

PlaceCases ==
  <<Found(NoVm),
    Case([Instance EXCEPT !.placement = "most-space"], NoVm),
    Case([Instance EXCEPT !.placement = "most-space", !.datastore_filter = "b"], NoVm)>>

InitPlace ==
  \E n \in 0..NumIds, inv \in PlaceInventories :
    \E batch \in Batches(PlaceCases, n) : InitWith("clone_vm", Args, FALSE, inv, batch)

\* the first send() to a generator
FirstSend ==
  \E i \in Ids, f \in Faults :
    \E choice \in Draws(i) :
      gen[i].at = "start" /\ Resume(i, f, [ip |-> "", tools |-> FALSE], choice)

NextPlace ==
  \/ Start
  \/ NoRefresh
  \/ FirstSend

SpecPlace == InitPlace /\ [][NextPlace]_vars

\* power_on_off_vm on instance dicts of which some carry the 'error' key of an
\* earlier run, as when the mapping a run returned is passed in again
RerunCases ==
  <<Found(NoVm), Found(Vm(TRUE, "poweredOn", 1)), Found(Vm(TRUE, "poweredOff", 1)),
    Case([Instance EXCEPT !.error = "Traceback"], Vm(TRUE, "poweredOn", 1)),
    Case([Instance EXCEPT !.error = "Traceback"], Vm(TRUE, "poweredOff", 1))>>

InitRerun ==
  \E a \in ArgsOf("power_on_off_vm"), n \in 0..NumIds :
    \E batch \in Batches(RerunCases, n) :
      InitWith("power_on_off_vm", a, FALSE, Inventory, batch)

SpecRerun == InitRerun /\ [][Next]_vars

\* run_on_instances left to run, against a service that ends every task, makes
\* every polled property true and answers the batched refresh again and again:
\* no KeyboardInterrupt, no refresh request that raises; the mutating calls
\* and the lookups of the generators meet what they may meet
LiveOperations == {"power_on_off_vm", "revert_to_snapshot"}

LiveFaults == Faults \ {"interrupt"}

InitLive ==
  \E op \in LiveOperations, n \in 0..NumIds :
    \E a \in ArgsOf(op), batch \in Batches(Cases(op), n) :
      InitWith(op, a, FALSE, Inventory, batch)

\* the refresh of a tick whose RetrieveProperties request returns
RefreshAnswered == Refresh /\ last'.exc \notin {"Fault", "KeyboardInterrupt"}

\* a refresh that succeeds and shows every task ended and every polled
\* property true
RefreshDone ==
  /\ RefreshAnswered /\ last'.exc = ""
  /\ \A i \in DOMAIN tasks' :
       tasks'[i] # None =>
         IF tasks'[i].type = "Task" THEN done(tasks'[i])
         ELSE got_ip(tasks'[i]) /\ guest_tool_running(tasks'[i])

NextLive ==
  \/ Start
  \/ RefreshAnswered
  \/ NoRefresh
  \/ \E i \in Ids, f \in LiveFaults :
       \E guest \in Reads(i), choice \in Draws(i) : Resume(i, f, guest, choice)
  \/ Sleep
  \/ Return

\* the interpreter keeps running the loop; the service does the above
SpecLive ==
  InitLive /\ [][NextLive]_vars /\ WF_vars(NextLive) /\ SF_vars(RefreshDone)

\* Vim.update_many_objects called on its own, on mappings that mix empty
\* entries with tasks and VMs in the states a caller can hold them in
Handles ==
  {None, ManagedObject("PowerOnVM_Task"),
   [ManagedObject("CloneVM_Task") EXCEPT !.state = "running"],
   VirtualMachine(FALSE, "", FALSE), VirtualMachine(TRUE, "", FALSE),
   VirtualMachine(TRUE, "ip_cached", TRUE)}

InitRefresh ==
  /\ pc = "idle"
  /\ operation = "update_many_objects"
  /\ args = Args
  /\ environ = FALSE
  /\ instances = << >>
  /\ server = [i \in Ids |-> Vm(TRUE, "poweredOff", 0)]
  /\ inventory = Inventory
  /\ datastores = << >>
  /\ base_vm_cache = << >>
  /\ cluster_datastore_cache = {}
  /\ ops = {}
  /\ \E keys \in SUBSET Ids : tasks \in [keys -> Handles]
  /\ updated_instances = << >>
  /\ todo = {}
  /\ gen = [i \in Ids |-> Frame0]
  /\ calls = [i \in Ids |-> << >>]
  /\ now = 0
  /\ last = NoSend

\* updated = update_many_objects(tasks): tasks becomes the mapping returned,
\* last.res the flag returned with it
Update ==
  /\ pc = "idle"
  /\ \E answer \in RetrieveProperties(tasks) :
       LET u == update_many_objects(tasks, answer) IN
         /\ pc' = IF u.exc = "" THEN "returned" ELSE "raised"
         /\ tasks' = u.objects
         /\ last' = [id |-> 0, res |-> IF u.ok THEN "True" ELSE "False", exc |-> u.exc]
  /\ UNCHANGED <<operation, args, environ, instances, server, inventory, datastores,
                 base_vm_cache, cluster_datastore_cache, ops, updated_instances, todo,
                 gen, calls, now>>

SpecRefresh == InitRefresh /\ [][Update]_vars

\* create_snapshot and remove_snapshot with CLONE_WITHOUT_SNAPSHOT set and not
\* set in the environment of the process
SnapshotOperations == {"create_snapshot", "remove_snapshot"}

InitSnapshot ==
  \E op \in SnapshotOperations, env \in BOOLEAN, n \in 1..NumIds :
    \E a \in ArgsOf(op), batch \in Batches(SnapshotCases, n) :
      InitWith(op, a, env, Inventory, batch)

SpecSnapshot == InitSnapshot /\ [][Next]_vars

\* every workflow on one instance against a slow service: the ticks are long
\* enough for the clock to pass task_timeout while a generator waits
WaitCases(op) ==
  IF op = "clone_vm"
  THEN CloneCases \o <<Case([Instance EXCEPT !.network = "ok"], NoVm)>>
  ELSE Cases(op)

InitWaits ==
  \E op \in Operations :
    \E a \in ArgsOf(op), batch \in Batches(WaitCases(op), 1) :
      InitWith(op, a, FALSE, Inventory, batch)

\* line 484, and the time a tick took against the slow service
SlowSleep ==
  /\ pc = "resume" /\ todo = {}
  /\ now + TickSleep + SlowLatency <= MaxSlowClock
  /\ now' = now + TickSleep + SlowLatency
  /\ pc' = "loop"
  /\ UNCHANGED <<operation, args, environ, instances, server, inventory, datastores,
                 base_vm_cache, cluster_datastore_cache, ops, tasks, updated_instances,
                 todo, gen, calls, last>>

NextWaits ==
  \/ Start
  \/ Refresh
  \/ NoRefresh
  \/ \E i \in Ids, f \in Faults :
       \E guest \in Reads(i), choice \in Draws(i) : Resume(i, f, guest, choice)
  \/ SlowSleep
  \/ Return
  \/ Interrupt

SpecWaits == InitWaits /\ [][NextWaits]_vars

\* the first tick of clone_vm batches on a VmOperations object that may have
\* run a clone before: instances that share the base VM and differ in
\* cluster, filter and strategy, and caches as the earlier run left them
CacheInstances ==
  <<Instance,
    [Instance EXCEPT !.placement = "most-space"],
    [Instance EXCEPT !.datastore_filter = "b"],
    [Instance EXCEPT !.cluster = "c_ok"],
    [Instance EXCEPT !.cluster = "c_x"],
    [Instance EXCEPT !.base_vm_name = "nobase"]>>

CacheCases == [k \in DOMAIN CacheInstances |-> Case(CacheInstances[k], NoVm)]

CacheInventories ==
  {[Inventory EXCEPT !.freeSpace = [@ EXCEPT !["ds_a"] = a, !["ds_b"] = b]] : a \in {3, 5}, b \in {3, 5}}

\* the caches after __init__
EmptyCaches ==
  [err |-> "", found |-> FALSE, target |-> "", base_vm_cache |-> << >>,
   cluster_datastore_cache |-> {}, datastores |-> << >>]

\* the caches after the first send() of an earlier run to a clone_vm generator
\* of 'instance' on the inventory inv
Earlier(instance, choice) ==
  LET b == get_base_vm(instance, EmptyCaches)
  IN IF b.err # "" \/ ~b.found THEN b
     ELSE place_vm(b.base_vm_cache[instance.base_vm_name], instance.placement, choice, b)

EarlierRuns ==
  {EmptyCaches} \cup
  {Earlier(CacheInstances[k], choice) : k \in {1, 3, 4, 6}, choice \in {0, 1}}

InitCache ==
  \E n \in 0..NumIds, inv \in CacheInventories :
    \E batch \in Batches(CacheCases, n) :
      /\ pc = "idle"
      /\ operation = "clone_vm"
      /\ args = Args
      /\ environ = FALSE
      /\ instances = [i \in DOMAIN batch |-> batch[i].instance]
      /\ server = [i \in Ids |-> NoVm]
      /\ inventory = inv
      /\ \E c \in EarlierRuns :
           /\ datastores = c.datastores
           /\ base_vm_cache = c.base_vm_cache
           /\ cluster_datastore_cache = c.cluster_datastore_cache
      /\ ops = {}
      /\ tasks = << >>
      /\ updated_instances = << >>
      /\ todo = {}
      /\ gen = [i \in Ids |-> Frame0]
      /\ calls = [i \in Ids |-> << >>]
      /\ now = 0
      /\ last = NoSend

SpecCache == InitCache /\ [][NextPlace]_vars

(* ------------------------------------------------------------ properties *)
\* updated_instances[i]['error'], "" while the key is absent
Error(i) == updated_instances[i].error

\* the send() of a step ended in an exception of generator i
Raised(i) == gen[i].at # "failed" /\ gen'[i].at = "failed"

\* C1: when the generator of one instance raises on resume, that instance gets
\* 'error' and leaves ops and tasks, the loop goes on, and nothing of any other
\* instance changes: it stays active and in the list still to be resumed; each
\* tick resumes every active generator; and when the run returns, exactly the
\* instances whose generator raised carry 'error'.
C1_FailureIsolation ==
  /\ [](pc = "returned" =>
          \A i \in DOMAIN instances :
            /\ gen[i].at \in {"failed", "done"}
            /\ (gen[i].at = "failed" <=> Error(i) # ""))
  /\ [][/\ \A i \in Ids :
             Raised(i) =>
               /\ pc' = "resume"
               /\ updated_instances'[i].error # ""
               /\ i \notin ops' /\ i \notin DOMAIN tasks'
               /\ \A j \in DOMAIN instances \ {i} :
                    /\ gen'[j] = gen[j] /\ calls'[j] = calls[j]
                    /\ updated_instances'[j] = updated_instances[j]
                    /\ (j \in ops <=> j \in ops')
                    /\ (j \in ops => tasks'[j] = tasks[j])
                    /\ (j \in todo <=> j \in todo')
        /\ (pc = "loop" /\ pc' = "resume" => todo' = ops)
        /\ (pc = "resume" /\ pc' = "loop" => todo = {})]_vars

\* a run has returned with one instance failed and another one completed with
\* the address its workflow found
C1_Witness ==
  /\ pc = "returned"
  /\ \E a \in DOMAIN instances, b \in DOMAIN instances :
       /\ gen[a].at = "failed" /\ Error(a) # ""
       /\ gen[b].at = "done" /\ Error(b) = "" /\ updated_instances[b].ipv4 # ""

\* C2: when run_on_instances returns, the ids of the returned mapping are
\* exactly the ids of the input mapping.
C2_SameIds == pc = "returned" => DOMAIN updated_instances = DOMAIN instances

\* a batch that fills every id has returned, with a failed and a completed one
C2_Witness ==
  /\ pc = "returned" /\ DOMAIN instances = Ids /\ DOMAIN updated_instances = Ids
  /\ \E a \in Ids : gen[a].at = "failed"
  /\ \E b \in Ids : gen[b].at = "done" /\ calls[b] # << >>

\* C3: run_on_instances never throws to its caller: no exception other than
\* the operator's interrupt leaves it.
C3_NeverThrows == pc # "raised"

\* C4: an interrupt, wherever it is raised, leaves run_on_instances: the step
\* that meets it ends the run, records nothing in updated_instances and
\* changes no generator, and no step follows it.
C4_InterruptPropagates ==
  [][/\ pc # "interrupted"
     /\ (last'.res = "interrupt" \/ last'.exc = "KeyboardInterrupt") =>
          /\ pc' = "interrupted"
          /\ updated_instances' = updated_instances
          /\ gen' = gen /\ calls' = calls /\ ops' = ops]_vars

\* a send() was interrupted while another generator of the tick was still to
\* be resumed for the first time
C4_Witness ==
  /\ pc = "interrupted" /\ last.res = "interrupt" /\ last.id \in todo
  /\ Error(last.id) = ""
  /\ \E j \in todo \ {last.id} : gen[j].at = "start"

\* C5: in every workflow, a task consumed in state error is the last call of
\* the workflow, which ends failed with 'error' recorded.
C5_TaskErrorFails ==
  \A i \in DOMAIN instances :
    \A k \in DOMAIN calls[i] :
      calls[i][k].state = "error" =>
        /\ k = Len(calls[i])
        /\ gen[i].at = "failed"
        /\ pc # "idle" /\ Error(i) # ""

\* C6: a clone_vm that fails, before its CloneVM_Task, with the exception of a
\* missing base VM, of no datastore with enough free space or of an
\* unresolvable resource pool or cluster has issued no mutating call, also
\* when nuke_old is set and a VM of the target name exists.
C6_NoCallBeforeFailure ==
  [][\A i \in DOMAIN instances :
       (/\ operation = "clone_vm"
        /\ gen[i].at \in {"start", "nuke_delete"}
        /\ Raised(i)
        /\ updated_instances'[i].error \in {"InvalidParameterError", "NameError"}) =>
         calls'[i] = << >>]_vars

\* the target of instance i, not yet resumed, cannot be resolved: no base VM
\* of that name for clone_vm, no VM of that name and none supplied for the
\* other workflows
Unresolved(i) ==
  /\ gen[i].at = "start"
  /\ IF operation = "clone_vm" THEN instances[i].base_vm_name \notin inventory.templates
     ELSE /\ ~server[i].exists
          /\ instances[i].vm = "empty" \/ (operation = "update_vm" /\ instances[i].vm = "nokey")

\* C7: a workflow whose target cannot be resolved fails on its first resume:
\* that send() raises, sets 'error', issues no mutating call and takes the
\* instance out of ops and tasks; before it the instance has no handle and no
\* call, after it nothing of it changes any more, and a batched refresh is made
\* only for generators that have yielded a handle.
C7_UnresolvedFailsFirst ==
  /\ [](\A i \in DOMAIN instances :
          /\ (pc # "idle" /\ gen[i].at = "start") =>
                calls[i] = << >> /\ i \in ops /\ tasks[i] = None
          /\ gen[i].at = "failed" => Error(i) # "" /\ i \notin ops /\ i \notin DOMAIN tasks)
  /\ [](pc = "loop" /\ any(tasks) =>
          \A i \in DOMAIN tasks : tasks[i] # None /\ gen[i].at # "start")
  /\ [][\A i \in DOMAIN instances :
          /\ (Unresolved(i) /\ i \in todo /\ i \notin todo') =>
                /\ Raised(i) /\ pc' = "resume"
                /\ updated_instances'[i].error # ""
                /\ calls'[i] = << >>
                /\ i \notin ops' /\ i \notin DOMAIN tasks'
          /\ gen[i].at = "failed" =>
                /\ gen'[i] = gen[i] /\ calls'[i] = calls[i]
                /\ updated_instances'[i] = updated_instances[i]]_vars

\* a power batch has returned in which an instance naming no VM failed without
\* a call while the other instance had its task refreshed to success
C7_Witness ==
  /\ pc = "returned" /\ operation = "power_on_off_vm"
  /\ \E i \in DOMAIN instances, j \in DOMAIN instances :
       /\ ~server[i].exists /\ instances[i].vm = "empty"
       /\ gen[i].at = "failed" /\ Error(i) = "InvalidParameterError" /\ calls[i] = << >>
       /\ calls[j] # << >> /\ calls[j][1].state = "success"

\* C8: with an empty instances mapping run_on_instances goes from its prologue
\* to its return: no generator, no refresh, no send(), no tick, an empty result.
C8_EmptyBatch ==
  DOMAIN instances = {} =>
    /\ pc \in {"idle", "loop", "returned"}
    /\ last = NoSend /\ todo = {} /\ ops = {} /\ now = 0
    /\ DOMAIN tasks = {} /\ DOMAIN updated_instances = {}
    /\ \A i \in Ids : calls[i] = << >> /\ gen[i] = Frame0

C8_Witness == pc = "returned" /\ DOMAIN instances = {} /\ DOMAIN updated_instances = {}

\* the power state power_on_off_vm is asked for, and the call that leads to it
Desired == IF args.off THEN "poweredOff" ELSE "poweredOn"

PowerCall == IF args.off THEN "PowerOffVM_Task" ELSE "PowerOnVM_Task"

\* instance i of a power_on_off_vm batch names a VM that is on or off
Toggled(i) ==
  /\ operation = "power_on_off_vm"
  /\ server[i].exists /\ server[i].power # "suspended"
  /\ instances[i].vm \in {"empty", "summary", "summary_ip"}

\* C9: in a power_on_off_vm batch over VMs that are on or off, where no
\* request meets a connection fault: a VM already in the desired state gets
\* no call and its workflow completes at once, any other VM gets exactly one
\* call, the one for the desired state; a workflow whose task succeeded
\* completes without 'error' with the VM in the desired state; and a run in
\* which every task succeeded returns with every VM in the desired state and
\* no 'error'.
C9_PowerToggle ==
  /\ [](\A i \in DOMAIN instances :
          Toggled(i) =>
            /\ Len(calls[i]) <= 1
            /\ \A k \in DOMAIN calls[i] : calls[i][k].call = PowerCall
            /\ (gen[i].at = "done" => server[i].power = Desired /\ Error(i) = "")
            /\ (calls[i] # << >> /\ calls[i][1].state = "success" =>
                  \/ gen[i].at = "done"
                  \/ gen[i].at = "failed" /\ Error(i) = "Fault"))
  /\ [](pc = "returned"
         /\ (\A i \in DOMAIN instances :
               /\ Toggled(i) /\ Error(i) # "Fault"
               /\ \A k \in DOMAIN calls[i] : calls[i][k].state = "success")
         => \A i \in DOMAIN instances : Error(i) = "" /\ server[i].power = Desired)
  /\ [][\A i \in DOMAIN instances :
          (/\ Toggled(i) /\ gen[i].at = "start" /\ gen'[i].at # "start"
           /\ updated_instances'[i].error # "Fault") =>
            IF server[i].power = Desired
            THEN calls'[i] = << >> /\ gen'[i].at = "done"
            ELSE Len(calls'[i]) = 1 /\ gen'[i].at = (IF args.off THEN "power_off" ELSE "power_on")]_vars

\* a power-off batch has returned: one VM was off and got no call, the other
\* one was switched off by one call
C9_Witness ==
  /\ pc = "returned" /\ operation = "power_on_off_vm" /\ args.off
  /\ \E a \in DOMAIN instances, b \in DOMAIN instances :
       /\ Toggled(a) /\ calls[a] = << >> /\ gen[a].at = "done"
       /\ Toggled(b) /\ calls[b] = <<[call |-> "PowerOffVM_Task", state |-> "success"]>>
       /\ server[a].power = "poweredOff" /\ server[b].power = "poweredOff"
       /\ Error(a) = "" /\ Error(b) = ""

\* C10: a clone_vm in the wait for the guest tools does not outlive the run in
\* any way but the timeout: while it waits the run has neither returned nor
\* thrown, and it leaves a send() still waiting only within the 60 seconds.
C10_ToolWaitTimesOut ==
  \A i \in DOMAIN instances :
    (operation = "clone_vm" /\ gen[i].at = "tools") =>
      /\ pc \notin {"raised", "returned"}
      /\ i \in ops
      /\ (pc = "resume" /\ i \notin todo =>
            now - gen[i].tool_wait_started <= ToolWaitTimeout)

\* what does hold of the tool wait: a send() made more than 60 seconds after
\* its start raises TimeoutError and issues nothing, whatever the refreshes
\* returned, and the script is started only on a handle with running tools
ToolWaitTimeoutRaised ==
  [][\A i \in DOMAIN instances :
       (operation = "clone_vm" /\ gen[i].at = "tools" /\ i \in todo /\ i \notin todo') =>
         IF now - gen[i].tool_wait_started > ToolWaitTimeout
         THEN Raised(i) /\ updated_instances'[i].error = "TimeoutError" /\ calls'[i] = calls[i]
         ELSE calls'[i] # calls[i] => guest_tool_running(tasks[i])]_vars

\* the send() of a step called place_vm for instance i: a first resume of a
\* clone_vm generator without nuke_old and without a given datastore that
\* found its base VM
Placing(i) ==
  /\ operation = "clone_vm" /\ ~args.nuke_old
  /\ pc = "resume" /\ i \in todo /\ i \notin todo'
  /\ gen[i].at = "start" /\ instances[i].datastore = ""
  /\ instances[i].base_vm_name \in DOMAIN base_vm_cache'

\* base_vm.size and base_vm.available_datastores of that call
PlacedSize(i) == base_vm_cache'[instances[i].base_vm_name].size

Candidates(i) == Range(base_vm_cache'[instances[i].base_vm_name].available_datastores)

\* x.summary.freeSpace of the candidates as the call finds them: the cached
\* objects where there are any, else the ones _get_base_vm has just fetched
Figures(i) ==
  LET list == base_vm_cache'[instances[i].base_vm_name].list
  IN IF list \in DOMAIN datastores THEN datastores[list] ELSE inventory.freeSpace

Eligible(i) == {x \in Candidates(i) : Figures(i)[x] > PlacedSize(i)}

\* C11: with placement 'most-space', place_vm returns a candidate datastore of
\* the base VM whose cached free space exceeds the size of the base VM and is
\* the largest among the candidates that do, on the figures cached when it is
\* called.
C11_MostSpace ==
  [][\A i \in DOMAIN instances :
       (Placing(i) /\ instances[i].placement = "most-space" /\ gen'[i].datastore # "") =>
         /\ gen'[i].datastore \in Eligible(i)
         /\ \A x \in Eligible(i) : Figures(i)[gen'[i].datastore] >= Figures(i)[x]]_vars

\* two most-space placements were made one after the other: the first on the
\* datastore with the most space, the second, on the lowered figure, elsewhere
C11_Witness ==
  /\ operation = "clone_vm" /\ pc = "resume"
  /\ \E a \in DOMAIN instances, b \in DOMAIN instances :
       /\ instances[a].placement = "most-space" /\ instances[b].placement = "most-space"
       /\ gen[a].datastore # "" /\ gen[b].datastore # ""
       /\ gen[a].datastore # gen[b].datastore
       /\ inventory.freeSpace[gen[a].datastore] > inventory.freeSpace[gen[b].datastore]

\* C12: with either strategy place_vm returns only a datastore from the
\* candidate list of the base VM whose cached free space is strictly greater
\* than the size of the base VM, and it returns one whenever there is one; when
\* there is none it raises InvalidParameterError, selects nothing, reserves
\* nothing and no clone call is made.
C12_OnlyEligible ==
  [][\A i \in DOMAIN instances :
       (Placing(i) /\ instances[i].placement \in {"random", "most-space"}) =>
         IF Eligible(i) = {}
         THEN /\ Raised(i) /\ updated_instances'[i].error = "InvalidParameterError"
              /\ gen'[i].datastore = ""
              /\ \A l \in DOMAIN datastores : datastores'[l] = datastores[l]
              /\ \A l \in DOMAIN datastores' \ DOMAIN datastores :
                   datastores'[l] = inventory.freeSpace
              /\ calls'[i] = << >>
         ELSE gen'[i].datastore \in Eligible(i)]_vars

\* a random placement took a datastore while another instance failed with
\* InvalidParameterError, a candidate with just the size free being left
C12_Witness ==
  /\ operation = "clone_vm" /\ pc = "resume"
  /\ \E a \in DOMAIN instances, b \in DOMAIN instances :
       /\ instances[a].placement = "random" /\ gen[a].datastore # ""
       /\ gen[b].at = "failed" /\ Error(b) = "InvalidParameterError"
       /\ gen[b].datastore = "" /\ calls[b] = << >>
       /\ instances[b].base_vm_name \in DOMAIN base_vm_cache
       /\ LET base_vm == base_vm_cache[instances[b].base_vm_name]
          IN \E x \in Range(base_vm.available_datastores) :
               datastores[base_vm.list][x] = base_vm.size

\* C13: a successful place_vm lowers the cached free space of the datastore it
\* returns by exactly the size of the base VM and leaves every other figure
\* unchanged; it queries nothing again: a base VM that is cached stays cached
\* as it is, and its next placement is decided on the lowered figures.
C13_Reserves ==
  [][\A i \in DOMAIN instances :
       (Placing(i) /\ gen'[i].datastore # "") =>
         LET base_vm_name == instances[i].base_vm_name
             list == base_vm_cache'[base_vm_name].list
         IN
         /\ datastores'[list] =
              [Figures(i) EXCEPT ![gen'[i].datastore] = @ - PlacedSize(i)]
         /\ \A l \in DOMAIN datastores' \ {list} :
              datastores'[l] = IF l \in DOMAIN datastores THEN datastores[l]
                               ELSE inventory.freeSpace
         /\ (base_vm_name \in DOMAIN base_vm_cache =>
               /\ base_vm_cache' = base_vm_cache
               /\ cluster_datastore_cache' = cluster_datastore_cache
               /\ Figures(i) = datastores[list]
               /\ datastores[list][gen'[i].datastore] > PlacedSize(i))
         /\ inventory' = inventory]_vars

\* two placements took the same datastore, whose cached figure is now twice
\* the size of the base VM below what the server reports
C13_Witness ==
  /\ operation = "clone_vm" /\ pc = "resume"
  /\ \E a \in DOMAIN instances, b \in DOMAIN instances :
       /\ a # b /\ gen[a].datastore # "" /\ gen[a].datastore = gen[b].datastore
       /\ instances[a].base_vm_name \in DOMAIN base_vm_cache
       /\ LET base_vm == base_vm_cache[instances[a].base_vm_name]
          IN datastores[base_vm.list][gen[a].datastore] =
               inventory.freeSpace[gen[a].datastore] - 2 * base_vm.size

C15_ErrorIffRaised ==
  pc = "returned" =>
    \A i \in DOMAIN instances : Error(i) # "" <=> gen[i].at = "failed"

\* C15 as amended: when run_on_instances has returned, the returned dict of an
\* id whose input dict had no 'error' has 'error' if and only if the generator
\* of that id ended by raising; for any input dict, a generator that raised
\* leaves the 'error' written for it, and one that ended by StopIteration
\* leaves 'error' as the input dict had it, present or absent.
C15_ErrorIffRaisedOrCarried ==
  pc = "returned" =>
    \A i \in DOMAIN instances :
      /\ gen[i].at \in {"failed", "done"}
      /\ (instances[i].error = "" => (Error(i) # "" <=> gen[i].at = "failed"))
      /\ (gen[i].at = "failed" => Error(i) \notin {"", instances[i].error})
      /\ (gen[i].at = "done" => Error(i) = instances[i].error)

\* a run has returned in which a generator raised on a dict without 'error'
\* and another one completed on a dict that came with one
C15_Witness ==
  /\ pc = "returned"
  /\ \E a \in DOMAIN instances, b \in DOMAIN instances :
       /\ instances[a].error = "" /\ gen[a].at = "failed" /\ Error(a) # ""
       /\ instances[b].error # "" /\ gen[b].at = "done" /\ Error(b) = instances[b].error
       /\ calls[b] # << >>

\* C16: when every task ends, every polled property becomes true and the
\* batched refresh succeeds again and again, ops becomes empty and
\* run_on_instances returns the mapping with an entry for every id, failed or
\* not; the loop is left only with ops empty.
C16_EventuallyReturns ==
  /\ <>(pc = "returned" /\ ops = {} /\ DOMAIN updated_instances = DOMAIN instances)
  /\ [](pc \notin {"idle", "loop", "resume"} => ops = {})

\* what does hold of such a run: it returns, with ops empty and every id in
\* the mapping, unless a refresh was handed a handle without a reference
ReturnsUnlessAborted ==
  /\ <>(\/ pc = "returned" /\ ops = {} /\ DOMAIN updated_instances = DOMAIN instances
        \/ pc = "raised" /\ last.res = "refresh" /\ last.exc = "AttributeError")
  /\ [](pc \notin {"idle", "loop", "resume"} => ops = {} \/ pc = "raised")

\* the handle of generator i does not end the wait the generator is in: a
\* task that has not ended, a VM without an address, a guest without tools
Pending(i) ==
  CASE gen[i].at = "ip" -> ~got_ip(tasks[i])
    [] gen[i].at = "tools" -> ~guest_tool_running(tasks[i])
    [] OTHER -> ~done(tasks[i])

\* C17: a refresh that soft-fails hands back the handles as they were yielded,
\* none of which ends a wait, and the tick goes on to resume every generator; a
\* generator resumed with such a handle in a wait for a task or for an address
\* yields it again: it does not end, gets no 'error', issues nothing and stays
\* in ops, so that run_on_instances, which returns only with ops empty, does
\* not return; only a generator in the wait for the guest tools ends, by
\* TimeoutError once its 60 seconds are over. (A KeyboardInterrupt ends the
\* run at any time.)
C17_SoftFailStalls ==
  /\ [](pc = "loop" => \A i \in ops : tasks[i] # None => Pending(i))
  /\ [](pc = "loop" /\ any(tasks) =>
          \A answer \in RetrieveProperties(tasks) :
            LET u == update_many_objects(tasks, answer)
            IN (u.exc = "" /\ (answer.fault = "lost" \/ DOMAIN answer.object_contents = {}))
                 => ~u.ok /\ u.objects = tasks)
  /\ [][(pc = "loop" /\ pc' = "resume" /\ tasks' = tasks) =>
          /\ ops' = ops /\ todo' = ops /\ gen' = gen
          /\ updated_instances' = updated_instances /\ calls' = calls]_vars
  /\ [][\A i \in DOMAIN instances :
          (pc = "resume" /\ i \in todo /\ i \notin todo' /\ tasks[i] # None /\ Pending(i)) =>
            IF gen[i].at = "tools" /\ now - gen[i].tool_wait_started > ToolWaitTimeout
            THEN Raised(i) /\ updated_instances'[i].error = "TimeoutError"
            ELSE /\ gen'[i] = gen[i] /\ tasks'[i] = tasks[i] /\ i \in ops'
                 /\ updated_instances'[i] = updated_instances[i]
                 /\ calls'[i] = calls[i] /\ pc' = "resume"]_vars
  /\ [][(pc # "returned" /\ pc' = "returned") => pc = "loop" /\ ops = {}]_vars

\* a refresh has returned without refreshing: the task the generator waits
\* for is still as it was issued, and the generator is about to be resumed
C17_Witness ==
  /\ pc = "resume" /\ last.res = "refresh" /\ last.exc = ""
  /\ \E i \in todo :
       /\ gen[i].at \in {"clone", "power_on"}
       /\ tasks[i].type = "Task" /\ tasks[i].state = "" /\ tasks[i].mor # ""

\* C18: a tick starts at the top of the loop with nothing resumed yet and
\* tasks holding an entry for exactly the active ids. update_many_objects is
\* called there and only there, so once per tick and before any send(): it is
\* called exactly when ops is not empty and some entry of tasks is a handle,
\* with the whole of tasks, and tasks becomes what it returns; with no handle
\* in tasks the tick goes on to the sends without one. During the sends an
\* entry of tasks changes only for the id that is resumed.
C18_RefreshOncePerTick ==
  /\ [](pc = "loop" => last.res # "refresh" /\ todo = {} /\ DOMAIN tasks = ops)
  /\ [][(last'.res = "refresh" /\ last.res # "refresh") =>
          /\ pc = "loop" /\ ops # {} /\ any(tasks)
          /\ \E answer \in RetrieveProperties(tasks) :
               LET u == update_many_objects(tasks, answer)
               IN last'.exc = u.exc /\ tasks' = u.objects
          /\ gen' = gen /\ calls' = calls /\ ops' = ops
          /\ (pc' = "resume" => todo' = ops)]_vars
  /\ [][(pc = "loop" /\ pc' # "loop") =>
          IF ops = {} THEN pc' = "returned" /\ last' = last
          ELSE IF any(tasks) THEN last'.res = "refresh"
          ELSE last' = last /\ tasks' = tasks /\ pc' = "resume" /\ todo' = ops]_vars
  /\ [][pc = "resume" =>
          /\ last'.res # "refresh"
          /\ \A j \in DOMAIN tasks' : j \in todo' \/ j \notin todo => tasks'[j] = tasks[j]]_vars
  /\ [][gen' # gen => pc \in {"idle", "resume"}]_vars

\* a refresh has been made for a batch in which one generator has ended and the
\* other one waits: it returned the one handle refreshed, before any send()
C18_Witness ==
  /\ pc = "resume" /\ last.res = "refresh" /\ last.exc = ""
  /\ todo = ops /\ DOMAIN tasks = ops /\ Cardinality(ops) = 1
  /\ Cardinality(DOMAIN instances) = 2
  /\ \E i \in ops : tasks[i].type = "Task" /\ tasks[i].state = "success"

\* generator i has ended, by StopIteration or by raising
Ended(i) == gen[i].at \in {"done", "failed"}

\* C19: at the top of the loop ops and tasks have the same ids; the tick then
\* resumes the generators that were in ops there, one per step and each one
\* once, and ends when all of them have been resumed. The send() in which a
\* generator ends takes its id out of ops and out of tasks, its dict stays in
\* updated_instances, and nothing of it changes afterwards: it is neither
\* resumed nor refreshed again.
C19_ResumedOncePerTick ==
  /\ [](pc = "loop" => DOMAIN tasks = ops /\ todo = {})
  /\ [](pc \in {"loop", "resume"} =>
          /\ todo \subseteq ops /\ ops \subseteq DOMAIN tasks
          /\ DOMAIN updated_instances = DOMAIN instances
          /\ \A i \in DOMAIN instances :
               IF Ended(i) THEN i \notin ops /\ i \notin DOMAIN tasks ELSE i \in ops)
  /\ [][(pc = "loop" /\ pc' = "resume") => todo' = ops /\ ops' = ops]_vars
  /\ [][(pc = "resume" /\ pc' = "resume") =>
          \E i \in todo :
            /\ todo' = todo \ {i} /\ last'.id = i
            /\ \A j \in DOMAIN instances \ {i} : gen'[j] = gen[j] /\ calls'[j] = calls[j]]_vars
  /\ [][(pc = "resume" /\ pc' = "loop") => todo = {} /\ gen' = gen /\ ops' = ops]_vars
  /\ [][\A i \in DOMAIN instances :
          /\ (~Ended(i) /\ gen'[i].at \in {"done", "failed"}) =>
               /\ i \in todo /\ i \notin todo'
               /\ i \notin ops' /\ i \notin DOMAIN tasks'
               /\ i \in DOMAIN updated_instances'
          /\ Ended(i) =>
               /\ gen'[i] = gen[i] /\ calls'[i] = calls[i]
               /\ updated_instances'[i] = updated_instances[i]
               /\ i \notin ops' /\ i \notin DOMAIN tasks' /\ i \notin todo']_vars

\* a tick starts with one generator ended, by StopIteration, and the other
\* one active with the handle it yielded
C19_Witness ==
  /\ pc = "loop" /\ DOMAIN instances = Ids
  /\ \E a \in Ids, b \in Ids :
       /\ gen[a].at = "done" /\ a \notin ops /\ a \notin DOMAIN tasks
       /\ a \in DOMAIN updated_instances /\ calls[a] # << >>
       /\ ops = {b} /\ DOMAIN tasks = {b} /\ tasks[b] # None

\* C20: when the RetrieveProperties request of update_many_objects returns
\* nothing, or not as many results as the mapping has entries,
\* update_many_objects returns False and the mapping it was given, every
\* handle as it was. In run_on_instances such a refresh changes nothing but
\* the position in the tick: no dict gets 'error' (which only a send() that
\* raised writes, for the id it resumed), every generator is resumed with the
\* handle it yielded and yields it again, and the sleep leaves ops and tasks
\* as they are, so that the next tick calls update_many_objects with the same
\* handles; no step counts the attempts.
C20_SoftFailure ==
  /\ [](pc = "loop" /\ any(tasks) =>
          \A answer \in RetrieveProperties(tasks) :
            LET u == update_many_objects(tasks, answer)
                n == Cardinality(DOMAIN answer.object_contents)
            IN (u.exc = "" /\ (answer.fault = "lost" \/ n = 0
                               \/ n # Cardinality(DOMAIN tasks)))
                 => ~u.ok /\ u.objects = tasks)
  /\ [][(pc = "loop" /\ last'.res = "refresh" /\ last'.exc = "" /\ tasks' = tasks) =>
          /\ pc' = "resume" /\ todo' = ops /\ ops' = ops
          /\ updated_instances' = updated_instances
          /\ gen' = gen /\ calls' = calls /\ now' = now]_vars
  /\ [][\A i \in DOMAIN updated_instances :
          (i \in DOMAIN updated_instances'
           /\ updated_instances'[i].error # updated_instances[i].error) =>
             /\ pc = "resume" /\ i \in todo /\ last'.id = i
             /\ Raised(i) /\ last'.res = "raise"
             /\ updated_instances'[i].error = last'.exc]_vars
  /\ [][\A i \in DOMAIN instances :
          (pc = "resume" /\ i \in todo /\ i \notin todo' /\ tasks[i] # None
           /\ Pending(i) /\ gen[i].at # "tools") =>
             /\ tasks'[i] = tasks[i] /\ gen'[i] = gen[i] /\ i \in ops'
             /\ updated_instances' = updated_instances /\ calls' = calls]_vars
  /\ [][(pc = "resume" /\ pc' = "loop") =>
          /\ tasks' = tasks /\ ops' = ops /\ gen' = gen
          /\ updated_instances' = updated_instances /\ last' = last]_vars

\* a refresh asked for the tasks of two generators and has returned with both
\* of them as they were issued; no dict has 'error' and both generators are
\* about to be resumed
C20_Witness ==
  /\ pc = "resume" /\ last.res = "refresh" /\ last.exc = ""
  /\ ops = Ids /\ todo = Ids /\ DOMAIN tasks = Ids
  /\ \A i \in Ids :
       /\ tasks[i].type = "Task" /\ tasks[i].state = "" /\ tasks[i].mor # ""
       /\ Error(i) = "" /\ calls[i] # << >>

\* C21: when the service answers for some of the handles of a refresh only,
\* the handles it did not answer for come back as they were and the ones it
\* answered for come back refreshed, so that their generators see them.
C21_PartialRefresh ==
  pc = "loop" /\ any(tasks) =>
    \A answer \in RetrieveProperties(tasks) :
      LET u == update_many_objects(tasks, answer)
      IN (answer.fault = "ok" /\ u.exc = "") =>
           \A k \in DOMAIN tasks :
             u.objects[k] = IF k \in DOMAIN answer.object_contents
                            THEN answer.object_contents[k] ELSE tasks[k]

\* C22: given a mapping with empty entries and k handles, update_many_objects
\* returns the empty entries as supplied and, when the service returns one
\* result for each of the k handles, True with the k handles refreshed.
C22_EmptyEntriesKept ==
  pc = "idle" =>
    \A answer \in RetrieveProperties(tasks) :
      LET u == update_many_objects(tasks, answer)
          asked == {k \in DOMAIN tasks : tasks[k] # None}
      IN (answer.fault = "ok" /\ asked # {} /\ DOMAIN answer.object_contents = asked
          /\ \A k \in asked : tasks[k].mor # "") =>
           /\ u.exc = "" /\ u.ok
           /\ DOMAIN u.objects = DOMAIN tasks
           /\ \A k \in DOMAIN tasks :
                u.objects[k] = IF k \in asked THEN answer.object_contents[k] ELSE None

\* what update_many_objects does return for such an answer: True and the
\* handles refreshed when the mapping has no empty entry, else False and the
\* mapping it was given
AllOrNothing ==
  pc = "idle" =>
    \A answer \in RetrieveProperties(tasks) :
      LET u == update_many_objects(tasks, answer)
          asked == {k \in DOMAIN tasks : tasks[k] # None}
      IN (answer.fault = "ok" /\ asked # {} /\ DOMAIN answer.object_contents = asked
          /\ \A k \in asked : tasks[k].mor # "") =>
           IF asked = DOMAIN tasks
           THEN u.exc = "" /\ u.ok /\ u.objects = answer.object_contents
           ELSE u.exc = "" /\ ~u.ok /\ u.objects = tasks

\* the task-returning calls among the remote mutations of generator i:
\* run_script_in_guest returns when the program is started, not a task
TaskCalls(cs) == SelectSeq(cs, LAMBDA c : c.call # "StartProgramInGuest")

\* C23: of the task-returning calls a generator has issued, every one but the
\* last has been seen ended, in success or in error, by the generator; a send()
\* issues at most one of them, and issues one after an earlier one only when it
\* delivers the task of that earlier call in a terminal state.
C23_OneInFlight ==
  /\ [](\A i \in Ids :
          LET cs == TaskCalls(calls[i])
          IN \A k \in 1..(Len(cs) - 1) : cs[k].state \in {"success", "error"})
  /\ [][\A i \in Ids :
          LET cs == TaskCalls(calls[i])
              after == TaskCalls(calls'[i])
          IN Len(after) > Len(cs) =>
               /\ Len(after) = Len(cs) + 1
               /\ pc = "resume" /\ i \in todo /\ last'.id = i
               /\ after[Len(after)].state = ""
               /\ (cs # << >> /\ gen[i].at \notin {"ip", "tools"} =>
                     /\ tasks[i].type = "Task" /\ done(tasks[i])
                     /\ tasks[i].mor = cs[Len(cs)].call
                     /\ after[Len(cs)].state = tasks[i].state)]_vars

\* a delete_vm generator has issued its delete after the refresh showed it the
\* power-off task in success, and waits for the delete task
C23_Witness ==
  /\ operation = "delete_vm"
  /\ \E i \in ops :
       /\ calls[i] = <<[call |-> "PowerOffVM_Task", state |-> "success"],
                       [call |-> "Destroy_Task", state |-> ""]>>
       /\ gen[i].at = "delete" /\ tasks[i].mor = "Destroy_Task"

\* the remote mutations of clone_vm in the order of its code
CloneOrder ==
  <<"PowerOffVM_Task", "Destroy_Task", "CloneVM_Task", "ReconfigVM_Task",
    "PowerOnVM_Task", "StartProgramInGuest", "CreateSnapshot_Task">>

Rank(call) == CHOOSE k \in DOMAIN CloneOrder : CloneOrder[k] = call

\* C24: the remote mutations of a clone_vm generator follow the order
\* power-off and delete of the old VM, clone, reconfiguration, power-on,
\* script in the guest, snapshot, each at most once and each task call after
\* the one before it has ended; power-on follows a clone task seen in success;
\* the generator leaves the wait for its power-on task only with the VM read
\* as powered on, and the snapshot is issued only with 'ipv4' set.
C24_CloneOrder ==
  /\ [](\A i \in DOMAIN instances :
          /\ \A j \in DOMAIN calls[i], k \in DOMAIN calls[i] :
               /\ calls[i][j].call \in Range(CloneOrder)
               /\ (j < k => Rank(calls[i][j].call) < Rank(calls[i][k].call))
          /\ LET cs == TaskCalls(calls[i])
             IN \A k \in 1..(Len(cs) - 1) : cs[k].state \in {"success", "error"}
          /\ \A k \in DOMAIN calls[i] :
               /\ (calls[i][k].call = "PowerOnVM_Task" =>
                     \E j \in 1..(k - 1) :
                       calls[i][j] = [call |-> "CloneVM_Task", state |-> "success"])
               /\ (calls[i][k].call = "CreateSnapshot_Task" =>
                     /\ updated_instances[i].ipv4 # ""
                     /\ \E j \in 1..(k - 1) :
                          /\ calls[i][j].call = "PowerOnVM_Task"
                          /\ calls[i][j].state \in {"success", "error"})
          /\ (gen[i].at \in {"tools", "ip", "snapshot"} =>
                server[i].exists /\ server[i].power = "poweredOn"))
  /\ [][\A i \in DOMAIN instances :
          (gen[i].at = "power_on" /\ gen'[i].at \in {"tools", "ip", "snapshot"}) =>
             /\ done(tasks[i]) /\ tasks[i].mor = "PowerOnVM_Task"
             /\ server[i].power = "poweredOn"]_vars

\* a clone_vm generator has ended after replacing a powered-on VM: power-off,
\* delete, clone, power-on and snapshot were issued, and 'ipv4' is set
C24_Witness ==
  /\ operation = "clone_vm" /\ pc = "returned"
  /\ \E i \in DOMAIN instances :
       /\ gen[i].at = "done" /\ updated_instances[i].ipv4 # ""
       /\ [k \in DOMAIN calls[i] |-> calls[i][k].call] =
            <<"PowerOffVM_Task", "Destroy_Task", "CloneVM_Task", "PowerOnVM_Task",
              "CreateSnapshot_Task">>

\* C25: a send() to a clone_vm generator in the wait for the guest tools that
\* delivers a handle with running tools leaves the wait for the script, and
\* the send() raises TimeoutError only when the delivered handle has no
\* running tools.
C25_ToolsRunningProceeds ==
  [][\A i \in DOMAIN instances :
       (operation = "clone_vm" /\ gen[i].at = "tools"
          /\ pc = "resume" /\ i \in todo /\ i \notin todo') =>
         /\ (guest_tool_running(tasks[i]) =>
               gen'[i].at # "tools" /\ updated_instances'[i].error # "TimeoutError")
         /\ (updated_instances'[i].error = "TimeoutError" =>
               ~guest_tool_running(tasks[i]))]_vars

\* C26: a clone_vm generator whose instance has network settings without
\* username or password, or an interface without address or netmask, issues
\* no remote mutation, and when it has ended it has raised
\* InvalidParameterError.
C26_InvalidNetworkBeforeMutation ==
  \A i \in DOMAIN instances :
    (operation = "clone_vm" /\ instances[i].network \notin {"", "ok"}) =>
      /\ calls[i] = << >>
      /\ (gen[i].at \in {"done", "failed"} => Error(i) = "InvalidParameterError")

\* the first send() to the generator of instance i
FirstSendOf(i) == pc = "resume" /\ i \in todo /\ i \notin todo' /\ gen[i].at = "start"

\* the workflow looks a snapshot up by name, and the call it then issues
ByName ==
  \/ operation = "remove_snapshot"
  \/ operation = "revert_to_snapshot" /\ args.name # ""

ByNameCall ==
  IF operation = "remove_snapshot" THEN "RemoveSnapshot_Task" ELSE "RevertToSnapshot_Task"

\* C27: revert_to_snapshot with a name, and remove_snapshot, issue their call
\* only when exactly one snapshot of the VM has the name, and then do issue
\* it unless the lookup itself failed; with no or several such snapshots the
\* generator raises InvalidParameterError with no call issued; no further
\* call follows.
C27_ExactlyOneSnapshot ==
  /\ [][\A i \in DOMAIN instances :
          (ByName /\ FirstSendOf(i) /\ Resolve(i, "ok", TRUE) = "") =>
            LET n == IF args.name = "" THEN 0 ELSE server[i].snapshots
                failed == Raised(i) /\ updated_instances'[i].error = "Fault"
            IN /\ (calls'[i] # << >> =>
                     n = 1 /\ calls'[i] = <<[call |-> ByNameCall, state |-> ""]>>)
               /\ (n = 1 => calls'[i] # << >> \/ failed)
               /\ (n # 1 =>
                     /\ calls'[i] = << >> /\ Raised(i)
                     /\ (failed \/ updated_instances'[i].error = "InvalidParameterError"))]_vars
  /\ [](ByName => \A i \in DOMAIN instances : Len(calls[i]) <= 1)

\* a revert by name in a batch of a VM with one snapshot of the name, whose
\* revert was issued, and a VM with two, which raised with no call
C27_Witness ==
  /\ operation = "revert_to_snapshot" /\ args.name # ""
  /\ \E a \in DOMAIN instances, b \in DOMAIN instances :
       /\ server[a].snapshots = 1
       /\ calls[a] = <<[call |-> "RevertToSnapshot_Task", state |-> "success"]>>
       /\ server[b].snapshots = 2
       /\ calls[b] = << >> /\ Error(b) = "InvalidParameterError"

\* the send() of a step to generator i issued the call named
IssuedNow(i, call) ==
  /\ Len(calls'[i]) = Len(calls[i]) + 1
  /\ calls'[i][Len(calls'[i])].call = call

\* C28: delete_vm issues Destroy_Task only in a send() that reads the VM as
\* not powered on: its first send(), with nothing issued before, or the send()
\* that delivers the ended power-off task and reads the VM as powered off; a
\* VM read as powered on by the first send() gets PowerOffVM_Task and no
\* delete in that send(), an ended power-off that leaves the VM in another
\* state than poweredOff raises TaskFailedError with nothing issued, and a VM
\* not powered on at the first send() never gets a power-off.
C28_DeleteOnlyPoweredOff ==
  /\ [][\A i \in DOMAIN instances :
          (operation = "delete_vm" /\ pc = "resume" /\ i \in todo /\ i \notin todo') =>
            /\ (IssuedNow(i, "Destroy_Task") =>
                  /\ server[i].power # "poweredOn"
                  /\ \/ gen[i].at = "start" /\ calls[i] = << >>
                     \/ /\ gen[i].at = "power_off" /\ done(tasks[i])
                        /\ tasks[i].mor = "PowerOffVM_Task"
                        /\ server[i].power = "poweredOff")
            /\ (IssuedNow(i, "PowerOffVM_Task") =>
                  gen[i].at = "start" /\ calls[i] = << >> /\ server[i].power = "poweredOn")
            /\ (gen[i].at = "start" /\ calls'[i] # << >> =>
                  calls'[i] = <<[call |-> IF server[i].power = "poweredOn"
                                          THEN "PowerOffVM_Task" ELSE "Destroy_Task",
                                 state |-> ""]>>)
            /\ (gen[i].at = "power_off" /\ done(tasks[i]) /\ server[i].power # "poweredOff"
                  /\ last'.exc # "Fault" =>
                  /\ Raised(i) /\ updated_instances'[i].error = "TaskFailedError"
                  /\ Len(calls'[i]) = Len(calls[i]))]_vars
  /\ [](operation = "delete_vm" =>
          \A i \in DOMAIN instances :
            \A k \in DOMAIN calls[i] :
              /\ (calls[i][k].call = "Destroy_Task" => k = Len(calls[i]))
              /\ (calls[i][k].call = "PowerOffVM_Task" => k = 1))

\* a delete_vm batch has returned: the VM that was powered on was powered off
\* and then deleted, the VM that was not was deleted straight away
C28_Witness ==
  /\ operation = "delete_vm" /\ pc = "returned"
  /\ \E a \in DOMAIN instances, b \in DOMAIN instances :
       /\ calls[a] = <<[call |-> "PowerOffVM_Task", state |-> "success"],
                       [call |-> "Destroy_Task", state |-> "success"]>>
       /\ calls[b] = <<[call |-> "Destroy_Task", state |-> "success"]>>
       /\ Error(a) = "" /\ Error(b) = ""

\* C29: a power_on_off_vm generator that has ended without an exception and
\* without a call found its VM in the desired state; for a VM in any other
\* state, a suspended one too, the first call issued is the power call.
C29_NoOpOnlyInDesiredState ==
  \A i \in DOMAIN instances :
    operation = "power_on_off_vm" =>
      /\ (gen[i].at = "done" /\ calls[i] = << >> => server[i].power = Desired)
      /\ (gen[i].at = "done" /\ server[i].power # Desired =>
            calls[i] # << >> /\ calls[i][1].call = PowerCall)

\* the workflow ends with a wait for an address
WaitsForIp ==
  \/ operation \in {"update_vm", "clone_vm"}
  \/ operation = "revert_to_snapshot" /\ args.wait_for_ip

SnapshotCall ==
  IF operation = "create_snapshot" THEN "CreateSnapshot_Task" ELSE "RemoveSnapshot_Task"

\* C31: with CLONE_WITHOUT_SNAPSHOT set neither create_snapshot nor
\* remove_snapshot issues a call, and a generator of either that found its VM
\* ends at its first send(); without it a generator that ended without an
\* exception issued its call exactly once.
C31_FlagSkipsBoth ==
  \A i \in DOMAIN instances :
    operation \in SnapshotOperations =>
      /\ (environ => calls[i] = << >>)
      /\ (~environ /\ gen[i].at = "done" =>
            Len(calls[i]) = 1 /\ calls[i][1].call = SnapshotCall)

\* C31 (amended): with CLONE_WITHOUT_SNAPSHOT set create_snapshot issues no
\* call and ends at its first send() when it found its VM; remove_snapshot
\* does not read the variable; a remove_snapshot generator, and a
\* create_snapshot generator without the variable, that ended without an
\* exception issued its call exactly once and saw its task end.
C31_FlagSkipsCreate ==
  /\ [](operation \in SnapshotOperations =>
          \A i \in DOMAIN instances :
            /\ Len(calls[i]) <= 1
            /\ \A k \in DOMAIN calls[i] : calls[i][k].call = SnapshotCall
            /\ (operation = "create_snapshot" /\ environ => calls[i] = << >>)
            /\ (gen[i].at = "done" /\ (operation = "remove_snapshot" \/ ~environ) =>
                  /\ Len(calls[i]) = 1
                  /\ calls[i][1].state \in {"success", "error"}))
  /\ [][\A i \in DOMAIN instances :
          (operation = "create_snapshot" /\ environ /\ FirstSendOf(i)
             /\ Resolve(i, "ok", TRUE) = "") =>
            \/ gen'[i].at = "done" /\ i \notin ops' /\ updated_instances'[i].error = ""
            \/ Raised(i) /\ updated_instances'[i].error = "Fault"]_vars

\* with CLONE_WITHOUT_SNAPSHOT set, a remove_snapshot batch has returned after
\* removing the snapshot of one VM
C31_Witness ==
  /\ environ /\ operation = "remove_snapshot" /\ pc = "returned"
  /\ \E i \in DOMAIN instances :
       /\ gen[i].at = "done" /\ Error(i) = ""
       /\ calls[i] = <<[call |-> "RemoveSnapshot_Task", state |-> "success"]>>

\* C32: only the wait for the guest tools is bounded: a send() raises
\* TimeoutError only to a clone_vm generator in that wait; a generator resumed
\* in a wait for a task or for an address with a handle that does not end the
\* wait yields it again, stays in ops and gets no 'error', however long the run
\* has lasted, task_timeout included; and run_on_instances returns only with
\* every generator ended.
C32_OnlyToolWaitBounded ==
  /\ [][\A i \in DOMAIN instances :
          (Raised(i) /\ updated_instances'[i].error = "TimeoutError") =>
            /\ operation = "clone_vm" /\ gen[i].at = "tools"
            /\ now - gen[i].tool_wait_started > ToolWaitTimeout]_vars
  /\ [][\A i \in DOMAIN instances :
          (pc = "resume" /\ i \in todo /\ i \notin todo'
             /\ gen[i].at \notin {"start", "tools"} /\ tasks[i] # None /\ Pending(i)) =>
            /\ gen'[i] = gen[i] /\ i \in ops' /\ tasks'[i] = tasks[i]
            /\ updated_instances'[i].error = "" /\ pc' = "resume"]_vars
  /\ [](pc = "returned" =>
          ops = {} /\ \A i \in DOMAIN instances : gen[i].at \in {"done", "failed"})

\* more than task_timeout seconds into the run, a generator was resumed with
\* a task that has not ended or a VM without an address, and is still active
C32_Witness ==
  /\ now > task_timeout /\ pc = "resume"
  /\ \E i \in ops :
       /\ i \notin todo /\ last.id = i /\ last.res = "yield"
       /\ gen[i].at \in {"clone", "ip", "revert", "power_off"}
       /\ tasks[i] # None /\ Pending(i) /\ Error(i) = ""

\* C33: the caches of a VmOperations object are filled only by the first
\* send() to a clone_vm generator whose base VM is not cached and is found,
\* and are never invalidated: an entry stays as it is, a cached figure is
\* never fetched again; a clone_vm generator whose base VM is cached, by this
\* run or an earlier one, gets that entry: nothing is added to either cache,
\* and its datastore is a candidate of the cached entry chosen and reserved on
\* the cached, already lowered figures; a base VM or cluster that was not
\* found is not cached, and the generator that names it fails again.
C33_CachesKept ==
  /\ [][/\ \A name \in DOMAIN base_vm_cache :
             name \in DOMAIN base_vm_cache' /\ base_vm_cache'[name] = base_vm_cache[name]
        /\ cluster_datastore_cache \subseteq cluster_datastore_cache'
        /\ \A l \in DOMAIN datastores :
             /\ l \in DOMAIN datastores'
             /\ \A x \in DOMAIN datastores[l] : datastores'[l][x] <= datastores[l][x]
        /\ (base_vm_cache' # base_vm_cache \/ cluster_datastore_cache' # cluster_datastore_cache
              => \E i \in DOMAIN instances :
                   /\ FirstSendOf(i)
                   /\ instances[i].base_vm_name \notin DOMAIN base_vm_cache
                   /\ instances[i].base_vm_name \in inventory.templates
                   /\ DOMAIN base_vm_cache' \subseteq
                        DOMAIN base_vm_cache \cup {instances[i].base_vm_name}
                   /\ cluster_datastore_cache' \subseteq
                        cluster_datastore_cache \cup {instances[i].cluster})]_vars
  /\ [][\A i \in DOMAIN instances :
          (FirstSendOf(i) /\ instances[i].base_vm_name \in DOMAIN base_vm_cache) =>
            LET e == base_vm_cache[instances[i].base_vm_name]
                target == gen'[i].datastore
            IN /\ base_vm_cache' = base_vm_cache
               /\ cluster_datastore_cache' = cluster_datastore_cache
               /\ IF target = "" THEN datastores' = datastores
                  ELSE /\ target \in Range(e.available_datastores)
                       /\ datastores[e.list][target] > e.size
                       /\ datastores' = [datastores EXCEPT ![e.list][target] = @ - e.size]]_vars
  /\ [][\A i \in DOMAIN instances :
          (FirstSendOf(i) /\ instances[i].base_vm_name \notin DOMAIN base_vm_cache
             /\ instances[i].base_vm_name \notin inventory.templates) =>
            /\ Raised(i) /\ calls'[i] = << >>
            /\ updated_instances'[i].error \in {"InvalidParameterError", "Fault"}]_vars
  /\ [](/\ DOMAIN base_vm_cache \subseteq inventory.templates
        /\ cluster_datastore_cache \subseteq DOMAIN inventory.clusters)

\* a clone_vm generator without a cluster was placed from the entry that a
\* clone into cluster c_ok had cached for the base VM, after a reservation
\* had already lowered the figure of its datastore
C33_Witness ==
  /\ operation = "clone_vm" /\ pc = "resume"
  /\ \E b \in DOMAIN instances :
       /\ instances[b].cluster = "" /\ gen[b].datastore # ""
       /\ instances[b].base_vm_name \in DOMAIN base_vm_cache
       /\ LET e == base_vm_cache[instances[b].base_vm_name]
          IN /\ e.list = "c_ok"
             /\ datastores[e.list][gen[b].datastore] =
                  inventory.freeSpace[gen[b].datastore] - 2 * e.size

\* C34: the handle kept for generator i changes only when i yields a new one
\* or when the refresh of a tick replaces it by a refreshed copy of the same
\* remote object; and a task delivered in a terminal state is the task of the
\* last call of i, not consumed before, and is not kept for another send().
C34_OwnHandle ==
  /\ [][\A i \in DOMAIN instances :
          (i \in DOMAIN tasks /\ i \in DOMAIN tasks' /\ tasks'[i] # tasks[i]) =>
            \/ /\ pc = "resume" /\ i \in todo /\ i \notin todo'
               /\ last'.id = i /\ last'.res = "yield"
            \/ /\ pc = "loop" /\ last'.res = "refresh" /\ last'.exc = ""
               /\ tasks[i] # None /\ tasks'[i] \in Refreshed(tasks[i])
               /\ tasks'[i].mor = tasks[i].mor /\ tasks'[i].type = tasks[i].type]_vars
  /\ [][\A i \in DOMAIN instances :
          (pc = "resume" /\ i \in todo /\ i \notin todo'
             /\ tasks[i].type = "Task" /\ done(tasks[i])) =>
            LET cs == TaskCalls(calls[i])
            IN /\ cs # << >>
               /\ cs[Len(cs)] = [call |-> tasks[i].mor, state |-> ""]
               /\ (i \in ops' =>
                     ~(tasks'[i].type = "Task" /\ tasks'[i].mor = tasks[i].mor))]_vars

\* a refresh has answered for a batch in which one generator waits for a task
\* and another for an address: each is about to be resumed with its own
C34_Witness ==
  /\ pc = "resume" /\ last.res = "refresh" /\ last.exc = "" /\ todo = ops
  /\ \E a \in ops, b \in ops :
       /\ tasks[a].type = "Task" /\ tasks[a].state = "success"
       /\ gen[a].at \notin {"ip", "tools"}
       /\ tasks[b].type = "VirtualMachine" /\ tasks[b].ip # "" /\ gen[b].at = "ip"

\* C35: when a tick begins, tasks has an entry for each active generator and
\* for no other id; in the first tick every entry is None, so that no refresh
\* is made before every generator was resumed once, and from then on no entry
\* is None: update_many_objects is handed no empty entry and asks the service
\* for as many objects as the mapping has entries.
C35_NoEmptyEntry ==
  /\ [](pc = "loop" =>
          /\ DOMAIN tasks = ops
          /\ \/ \A k \in DOMAIN tasks : tasks[k] = None /\ gen[k].at = "start"
             \/ \A k \in DOMAIN tasks : tasks[k] # None /\ gen[k].at # "start")
  /\ [][(pc = "loop" /\ last'.res = "refresh" /\ last.res # "refresh") =>
          /\ tasks # << >>
          /\ \A k \in DOMAIN tasks : tasks[k] # None
          /\ Cardinality({k \in DOMAIN tasks : tasks[k] # None}) = Cardinality(DOMAIN tasks)]_vars

\* a refresh is due for a batch of which one generator has ended in the
\* first tick and the other one holds the handle it yielded
C35_Witness ==
  /\ pc = "loop" /\ Cardinality(DOMAIN instances) = 2
  /\ Cardinality(ops) = 1 /\ DOMAIN tasks = ops
  /\ \A k \in DOMAIN tasks : tasks[k] # None
  /\ \E i \in DOMAIN instances : gen[i].at = "done"

\* C36: the datastore place_vm picks for a clone_vm generator has a name that
\* contains the datastore_filter of its instance and, when the instance names
\* a cluster, is one of the datastores of that cluster.
C36_OwnConstraints ==
  \A i \in DOMAIN instances :
    (operation = "clone_vm" /\ instances[i].datastore = "" /\ gen[i].datastore # "") =>
      /\ Contains(gen[i].datastore, instances[i].datastore_filter)
      /\ (instances[i].cluster # "" =>
            /\ instances[i].cluster \in DOMAIN inventory.clusters
            /\ gen[i].datastore \in inventory.clusters[instances[i].cluster])

\* the sizes placed on datastore x of the cached list l by the generators of
\* the run
PlacedOn(l, x) ==
  LET placed == {i \in DOMAIN instances :
                   /\ instances[i].datastore = "" /\ gen[i].datastore = x
                   /\ instances[i].base_vm_name \in DOMAIN base_vm_cache
                   /\ base_vm_cache[instances[i].base_vm_name].list = l}
  IN Cardinality(placed) * Sum(inventory.committed)

\* C37: on a VmOperations object that starts with empty caches, the cached
\* figure of every datastore is the figure that was fetched less the sizes
\* placed on it, whether the clone went on or failed, and is positive when
\* the fetched figure was; no step raises a figure; and a placement that
\* finds no candidate with more free space than the base VM takes raises
\* InvalidParameterError with no call issued.
C37_Figures ==
  /\ [](operation = "clone_vm" =>
          \A l \in DOMAIN datastores : \A x \in DOMAIN datastores[l] :
            /\ datastores[l][x] = inventory.freeSpace[x] - PlacedOn(l, x)
            /\ (inventory.freeSpace[x] > 0 => datastores[l][x] > 0))
  /\ [][\A l \in DOMAIN datastores :
          /\ l \in DOMAIN datastores'
          /\ \A x \in DOMAIN datastores[l] : datastores'[l][x] <= datastores[l][x]]_vars
  /\ [][\A i \in DOMAIN instances :
          (Placing(i) /\ instances[i].placement \in {"random", "most-space"}
             /\ Eligible(i) = {}) =>
            /\ Raised(i) /\ updated_instances'[i].error = "InvalidParameterError"
            /\ calls'[i] = << >> /\ gen'[i].datastore = ""
            /\ \A l \in DOMAIN datastores' :
                 datastores'[l] = IF l \in DOMAIN datastores THEN datastores[l]
                                  ELSE inventory.freeSpace]_vars

\* two placements took the same datastore, one of them for a clone whose call
\* then failed: the figure is down by both sizes and has no room for a third
C37_Witness ==
  /\ operation = "clone_vm" /\ pc = "resume"
  /\ \E a \in DOMAIN instances, b \in DOMAIN instances :
       /\ a # b /\ gen[a].datastore # "" /\ gen[a].datastore = gen[b].datastore
       /\ gen[a].at = "failed" /\ gen[b].at = "clone"
       /\ instances[a].base_vm_name \in DOMAIN base_vm_cache
       /\ LET base_vm == base_vm_cache[instances[a].base_vm_name]
              figure == datastores[base_vm.list][gen[a].datastore]
          IN /\ figure = inventory.freeSpace[gen[a].datastore] - 2 * base_vm.size
             /\ figure > 0 /\ figure <= base_vm.size

\* C38: the 'ipv4' that revert_to_snapshot with wait_for_ip writes is an
\* address a refresh delivered after the revert task had ended, never one
\* held by the VM object the caller supplied.
C38_FreshAddress ==
  \A i \in DOMAIN updated_instances :
    (operation = "revert_to_snapshot" /\ args.wait_for_ip
       /\ updated_instances[i].ipv4 # "") =>
      /\ updated_instances[i].ipv4 = "ip_fresh"
      /\ calls[i] # << >> /\ calls[i][1].state \in {"success", "error"}

====
